---- MODULE Spec2Model ----
(***************************************************************************)
(* Model of the per-contract ingestion engine of mini-starknet-indexer-rs  *)
(* (src/src/indexer.rs) together with the cursor row and the events table  *)
(* it drives (src/src/database.rs).                                        *)
(*                                                                         *)
(* start_syncing reads the chain tip and the cursor row, spawns the        *)
(* tailing task (continuous_sync) and then runs catch-up                   *)
(* (sync_historical_data) itself.  Every awaited RPC or store call is one  *)
(* step of the task that makes it, and may fail while faultsLeft > 0.      *)
(*                                                                         *)
(* The RPC client wrapper (src/src/starknet.rs, rpc_call) is modelled on   *)
(* its own, one step per awaited request or sleep: variable rpc, RpcSpec.  *)
(* The subscription bus (src/src/realtime.rs, RealtimeEventManager) with   *)
(* its subscribers and one publisher is variable bus, BusSpec.             *)
(* The events table under insert_events and the event queries of           *)
(* src/src/database.rs is variable db, QuerySpec.                          *)
(***************************************************************************)
EXTENDS Integers, Sequences, FiniteSets

\* ---------------------------------------------------------------- bounds
MaxBlock   == 2   \* the chain tip at start-up, the stored cursor and start_block range over 0..MaxBlock;
                  \* the chain grows to at most MaxBlock + 1
MaxChunk   == 1   \* chunk_size ranges over 0..MaxChunk
MaxRetries == 1   \* max_retries ranges over 0..MaxRetries
MaxFaults  == 1   \* number of RPC / store calls that may fail in one run
MaxCalls   == 2   \* number of rpc_call invocations in one run of RpcSpec
MaxPublished == 2 \* number of broadcast_event calls in one run of BusSpec
MaxRecv    == 2   \* number of events one receiver takes in one run of BusSpec
MaxLimit   == 2   \* limit of a query ranges over 1..MaxLimit
MaxOffset  == 2   \* offset of a query ranges over 0..MaxOffset
MaxReply   == 2   \* number of logs in one starknet_getEvents reply of FilterSpec
MaxDigits  == 65  \* number of digits after the leading zeros of an address
MaxZeros   == 2   \* number of leading zeros of an address
MaxData    == 2   \* number of values in the data array of a log of DecodeSpec
MaxNow     == 2   \* the clock of KeySpec runs over 0..MaxNow
MaxWord    == 7   \* u64 values range over 0..MaxWord, wrapping at MaxWord + 1

\* Option<u64> values (None): the cursor row is absent / no start_block configured
NoRow   == -1
NoStart == -1

\* The scenario of a three-chunk backfill with the default chunk size
S2Scenario == [row |-> 0, start |-> 0, tip |-> 5000, chunk |-> 2000, retries |-> 3]

\* ------------------------------------------------------- the chain's log
\* One record per emitted log of the contract, in chain order; data is the
\* log's payload (its keys and data), different for every log.
ChainLog ==
    << [block |-> 1, tx |-> 1, data |-> "d1"],
       [block |-> 2, tx |-> 2, data |-> "d2"],
       [block |-> 2, tx |-> 2, data |-> "d3"],
       [block |-> 3, tx |-> 3, data |-> "d4"],
       [block |-> 4, tx |-> 4, data |-> "d5"] >>

VARIABLES
    cfg,         \* IndexerConfig: [start, chunk, retries]
    chainTip,    \* the chain's current block number
    cursorRow,   \* indexer_state.last_synced_block, or NoRow
    store,       \* rows of the events table
    faultsLeft,  \* calls that may still fail
    pcH,         \* position of start_syncing / sync_historical_data
    hLast,       \* sync_historical_data: last_synced
    hCur,        \* sync_historical_data: current_block
    hFrom,       \* sync_historical_data: from_block
    hAttempts,   \* sync_block_range (catch-up): attempts
    pcT,         \* position of continuous_sync / sync_latest_blocks
    tLast,       \* sync_latest_blocks: last_synced
    tCur,        \* sync_latest_blocks: current_block
    tAttempts,   \* sync_block_range (tailing): attempts
    atStart,     \* history: cursor row and chain tip at start-up
    hWins,       \* history: windows [from, to] processed by catch-up, in order
    hAllOk,      \* history: no catch-up window has failed so far
    tWrote,      \* history: the tailing task has written the cursor row
    covered,     \* history: blocks of the windows sync_block_range returned Ok for
    lost,        \* history: blocks of the catch-up windows it returned Err for
    rpc,         \* rpc_call: [pc, attempt, replies, waits] of the call in
                 \* progress and log, the history of the calls that returned
    bus,         \* RealtimeEventManager: subs (the subscriptions table), per
                 \* subscription the receiver rx, its channel chan, the events
                 \* overwritten unreceived (missed) and received (got, history),
                 \* the broadcast_event in progress [pc, pending], and
                 \* calls, the history of the events broadcast_event was
                 \* called with in this run (base: the number of calls
                 \* before the run, from: base + its length when
                 \* subscribe returned)
    db,          \* the events table as the queries see it: rows, and the last
                 \* operation op with its batch or its args and result
                 \* (before: the rows before it, repeat: it is an insert of
                 \* the batch the operation before it inserted), and the
                 \* transaction of the insert_events in progress, tx: the
                 \* rows when it began, its uncommitted rows work, the
                 \* events left to insert, the number done
    call,        \* the application under examination of one of the
                 \* program's functions: its name f, its inputs and what
                 \* it has computed
    api          \* the api_keys table keys, the clock now, the
                 \* validate_api_key in progress [pc, validate], the last
                 \* ApiKeyService call that returned (at: the clock when
                 \* a validate_api_key did), and the history: the
                 \* keys issued, the keys deactivated or deleted (dead), the
                 \* keys a validate_api_key returned a deployment for

ingestVars == << cfg, chainTip, cursorRow, store, faultsLeft, pcH, hLast, hCur, hFrom,
                 hAttempts, pcT, tLast, tCur, tAttempts, atStart, hWins, hAllOk, tWrote,
                 covered, lost >>

\* the state outside the ingestion engine
offIngest == << rpc, bus, db, call, api >>

vars == << ingestVars, offIngest >>

hVars == << pcH, hLast, hCur, hFrom, hAttempts >>
tVars == << pcT, tLast, tCur, tAttempts >>
histH == << hWins, hAllOk >>

\* ------------------------------------------------------------- helpers
Min(a, b) == IF a < b THEN a ELSE b

\* Outcomes a fallible call can have now: TRUE = Ok, FALSE = Err
Outcomes == IF faultsLeft > 0 THEN {TRUE, FALSE} ELSE {TRUE}

Spend(ok) == faultsLeft' = IF ok THEN faultsLeft ELSE faultsLeft - 1

\* Outcomes of get_events: "events" = Ok with the result, "err" = Err,
\* "noresult" = Ok with a body that holds no "result" (a JSON-RPC error object)
Replies == IF faultsLeft > 0 THEN {"events", "err", "noresult"} ELSE {"events"}

\* indexer.rs 178-184: where sync_historical_data goes once it has both
\* blocks; current_block - last_synced is evaluated for the log line before the
\* test, and with last_synced above current_block the u64 subtraction panics
\* in a build with overflow checks and wraps in one without
AfterTip(last, cur) ==
    IF last > cur THEN {"h_done", "h_panic"}
    ELSE IF last >= cur THEN {"h_done"} ELSE {"h_fetch"}

\* indexer.rs 152-172: the block catch-up starts from
EffectiveStart(row, start) ==
    IF row # NoRow
    THEN IF start # NoStart /\ start > row THEN start ELSE row
    ELSE IF start # NoStart THEN start ELSE 0

\* indexer.rs 197: upper bound of the window that starts at from
ToBlockSpanChunk(from, chunk, cur) == Min(from + chunk - 1, cur)

ToBlock(from, chunk, cur) == Min(from + chunk, cur)

\* indexer.rs 221: start of the window after [from, to]
NextFrom(to) == to + 1

\* starknet_getEvents for [from, to]: the chain's logs of those blocks, in order
EventsInRange(from, to) ==
    SelectSeq(ChainLog, LAMBDA e : from <= e.block /\ e.block <= to)

\* indexer.rs 360-418: one EventRecord per returned log, idx = position in the reply
Records(from, to) ==
    LET evs == EventsInRange(from, to)
    IN  { [id |-> << evs[i].tx, i - 1 >>, block |-> evs[i].block,
           tx |-> evs[i].tx, log_index |-> i - 1,
           raw_data |-> evs[i].data] : i \in 1..Len(evs) }

\* database.rs 249-280: INSERT OR REPLACE keyed on id
InsertEventsDeleteExisting(rows, batch) ==
    { r \in rows : \A b \in batch : b.id # r.id }
        \cup { b \in batch : \A r \in rows : b.id # r.id }

InsertEvents(rows, batch) ==
    { r \in rows : \A b \in batch : b.id # r.id } \cup batch

\* indexer.rs 203-219 and 305-312: the cursor row after a window whose
\* sync_block_range returned Ok (ok) or Err
CursorAfterWindowAlways(ok, row, to) == to

CursorAfterWindow(ok, row, to) == IF ok THEN to ELSE row

Blocks(from, to) == { b \in from..to : TRUE }

\* ------------------------------------------------------------ start-up
\* The stored cursor was written from a current_block the chain had reached
\* (213, 312), so it is not above the tip; start_block is the user's choice.
Configs ==
    { c \in [row : {NoRow} \cup 0..MaxBlock, start : {NoStart} \cup 0..MaxBlock,
             tip : 0..MaxBlock, chunk : 0..MaxChunk, retries : 0..MaxRetries] :
        c.row <= c.tip }

InitWith(c, f) ==
    /\ cfg = [start |-> c.start, chunk |-> c.chunk, retries |-> c.retries]
    /\ chainTip = c.tip
    /\ cursorRow = c.row
    /\ store = {}
    /\ faultsLeft = f
    /\ pcH = "boot_tip"
    /\ hLast = 0 /\ hCur = 0 /\ hFrom = 0 /\ hAttempts = 0
    /\ pcT = "t_idle"
    /\ tLast = 0 /\ tCur = 0 /\ tAttempts = 0
    /\ atStart = [row |-> c.row, tip |-> c.tip]
    /\ hWins = << >>
    /\ hAllOk = TRUE
    /\ tWrote = FALSE
    /\ covered = {}
    /\ lost = {}

\* starknet.rs 23-24: no call of rpc_call is in progress
RpcInit ==
    rpc = [pc |-> "idle", attempt |-> 0, replies |-> << >>, waits |-> << >>,
           log |-> << >>]

\* -------------------------------------------- realtime.rs, the bus
\* ids subscribe can draw (Uuid::new_v4), each at most once
SubIds == {"s1", "s2"}

\* realtime.rs 40: broadcast::channel(100)
SubChannelCap == 100

\* Option<Vec<String>>
None == [some |-> FALSE, v |-> << >>]
Some(vec) == [some |-> TRUE, v |-> vec]

NoSub == [contract_address |-> "", event_types |-> None, event_keys |-> None]

\* realtime.rs 30-36: no subscription, nothing broadcast
BusEmpty ==
    [subs |-> [i \in SubIds |-> NoSub],
     rx |-> [i \in SubIds |-> "none"],
     chan |-> [i \in SubIds |-> << >>],
     missed |-> [i \in SubIds |-> 0],
     got |-> [i \in SubIds |-> << >>],
     from |-> [i \in SubIds |-> 0],
     calls |-> << >>, base |-> 0,
     pc |-> "idle", pending |-> {}]

\* database.rs 105-119: the events table is empty, nothing was asked
NoTransaction == [open |-> FALSE, batch |-> << >>, began |-> {}, work |-> {},
                  left |-> << >>, done |-> 0, repeat |-> FALSE]

DbEmpty ==
    [rows |-> {}, op |-> "none", batch |-> << >>, args |-> << >>, result |-> << >>,
     before |-> {}, repeat |-> FALSE, tx |-> NoTransaction]

\* no function is being applied
NoCall == [f |-> "none"]

\* no validate_api_key call is in progress (found: what its SELECT returned,
\* table: the rows of the key's hash the table held then)
NoValidate == [key |-> "", found |-> {}, table |-> {}, after_create |-> FALSE,
               after_dead |-> FALSE]

\* no ApiKeyService call has returned
NoApiCall ==
    [op |-> "none", key |-> "", ok |-> TRUE, result |-> "", at |-> 0,
     validate |-> NoValidate]

\* database.rs 184-198: the api_keys table is empty
ApiEmpty ==
    [keys |-> {}, now |-> 0, pc |-> "idle", validate |-> NoValidate, last |-> NoApiCall,
     issued |-> {}, dead |-> {}, validated |-> {}]

OffIngestInit ==
    RpcInit /\ bus = BusEmpty /\ db = DbEmpty /\ call = NoCall /\ api = ApiEmpty

Init ==
    /\ \E c \in Configs \cup {S2Scenario} : InitWith(c, MaxFaults)
    /\ OffIngestInit

\* --------------------------------------------- start_syncing, 56-89, 109-124
\* get_current_block_number; the value is only printed
BootTip ==
    /\ pcH = "boot_tip"
    /\ \E ok \in Outcomes :
        /\ Spend(ok)
        /\ pcH' = IF ok THEN "boot_state" ELSE "aborted"
    /\ UNCHANGED << offIngest, cfg, chainTip, cursorRow, store, hLast, hCur, hFrom, hAttempts,
                    tVars, atStart, histH, tWrote, covered, lost >>

\* get_indexer_state (printed only), then tokio::spawn(continuous_sync)
BootState ==
    /\ pcH = "boot_state"
    /\ \E ok \in Outcomes :
        /\ Spend(ok)
        /\ pcH' = IF ok THEN "h_read" ELSE "aborted"
        /\ pcT' = IF ok THEN "t_read" ELSE pcT
    /\ UNCHANGED << offIngest, cfg, chainTip, cursorRow, store, hLast, hCur, hFrom, hAttempts,
                    tLast, tCur, tAttempts, atStart, histH, tWrote, covered, lost >>

\* ------------------------------------------ sync_historical_data, 148-233
\* 152-172: get_indexer_state(..)?
HRead ==
    /\ pcH = "h_read"
    /\ \E ok \in Outcomes :
        /\ Spend(ok)
        /\ pcH' = IF ok THEN "h_tip" ELSE "h_err"
        /\ hLast' = IF ok THEN EffectiveStart(cursorRow, cfg.start) ELSE hLast
    /\ UNCHANGED << offIngest, cfg, chainTip, cursorRow, store, hCur, hFrom, hAttempts,
                    tVars, atStart, histH, tWrote, covered, lost >>

\* 175-196: get_current_block_number(..)?, the up-to-date test, from_block = last_synced
HTip ==
    /\ pcH = "h_tip"
    /\ \E ok \in Outcomes :
        /\ Spend(ok)
        /\ IF ok
           THEN /\ hCur' = chainTip
                /\ hFrom' = hLast
                /\ pcH' \in AfterTip(hLast, chainTip)
           ELSE /\ pcH' = "h_err"
                /\ UNCHANGED << hCur, hFrom >>
    /\ UNCHANGED << offIngest, cfg, chainTip, cursorRow, store, hLast, hAttempts,
                    tVars, atStart, histH, tWrote, covered, lost >>

HTo == ToBlock(hFrom, cfg.chunk, hCur)

\* 196, 221-225: the window [hFrom, HTo] is over; the loop test
HWindowEnd ==
    /\ hWins' = Append(hWins, [from |-> hFrom, to |-> HTo])
    /\ hFrom' = NextFrom(HTo)
    /\ hAttempts' = 0
    /\ pcH' = IF NextFrom(HTo) < hCur THEN "h_fetch" ELSE "h_done"

\* 215-218: sync_block_range returned Err
HWindowFailed ==
    /\ HWindowEnd
    /\ hAllOk' = FALSE
    /\ cursorRow' = CursorAfterWindow(FALSE, cursorRow, HTo)
    /\ lost' = lost \cup Blocks(hFrom, HTo)
    /\ UNCHANGED << store, covered >>

\* 427: sync_block_range returns Ok for [from, to]
Persisted(from, to) ==
    /\ covered' = covered \cup Blocks(from, to)
    /\ UNCHANGED lost

\* 329-354: one turn of the retry loop of sync_block_range; 356-427 when
\* the reply holds no events (358-359: a reply without "result" holds none)
HFetch ==
    /\ pcH = "h_fetch"
    /\ IF hAttempts >= cfg.retries
       THEN \* the loop body never runs: "Failed to get events after all retries"
            /\ HWindowFailed
            /\ UNCHANGED faultsLeft
       ELSE \E r \in Replies :
                /\ Spend(r = "events")
                /\ IF r = "err"
                   THEN IF hAttempts + 1 < cfg.retries
                        THEN /\ hAttempts' = hAttempts + 1
                             /\ UNCHANGED << pcH, hFrom, histH, cursorRow, store,
                                             covered, lost >>
                        ELSE HWindowFailed
                   ELSE /\ hAttempts' = 0
                        /\ IF r = "events" /\ Records(hFrom, HTo) # {}
                           THEN /\ pcH' = "h_insert"
                                /\ UNCHANGED << covered, lost >>
                           ELSE /\ pcH' = "h_write"
                                /\ Persisted(hFrom, HTo)
                        /\ UNCHANGED << hFrom, histH, cursorRow, store >>
    /\ UNCHANGED << offIngest, cfg, chainTip, hLast, hCur, tVars, atStart, tWrote >>

\* 423-425: insert_events(&events)?
HInsert ==
    /\ pcH = "h_insert"
    /\ \E ok \in Outcomes :
        /\ Spend(ok)
        /\ IF ok
           THEN /\ store' = InsertEvents(store, Records(hFrom, HTo))
                /\ Persisted(hFrom, HTo)
                /\ pcH' = "h_write"
                /\ UNCHANGED << hFrom, hAttempts, histH, cursorRow >>
           ELSE HWindowFailed
    /\ UNCHANGED << offIngest, cfg, chainTip, hLast, hCur, tVars, atStart, tWrote >>

\* 213: update_indexer_state(.., to_block)?
HWrite ==
    /\ pcH = "h_write"
    /\ \E ok \in Outcomes :
        /\ Spend(ok)
        /\ IF ok
           THEN /\ cursorRow' = CursorAfterWindow(TRUE, cursorRow, HTo)
                /\ HWindowEnd
                /\ UNCHANGED hAllOk
           ELSE /\ hWins' = Append(hWins, [from |-> hFrom, to |-> HTo])
                /\ hAllOk' = FALSE
                /\ pcH' = "h_err"
                /\ UNCHANGED << cursorRow, hFrom, hAttempts >>
    /\ UNCHANGED << offIngest, cfg, chainTip, store, hLast, hCur, tVars, atStart, tWrote,
                    covered, lost >>

\* ---------------------------------- continuous_sync / sync_latest_blocks
\* 305 with 268-279: sync_block_range returned Err; continuous_sync logs it,
\* sleeps and calls sync_latest_blocks again
TWindowFailed ==
    /\ pcT' = "t_read"
    /\ tAttempts' = 0
    /\ cursorRow' = CursorAfterWindow(FALSE, cursorRow, tCur)
    /\ tWrote' = (tWrote \/ cursorRow' # cursorRow)
    /\ UNCHANGED << tLast, tCur, store, covered, lost >>

\* 284-287: get_indexer_state(..)?; no row: return Ok(0)
TRead ==
    /\ pcT = "t_read"
    /\ \E ok \in Outcomes :
        /\ Spend(ok)
        /\ IF ok /\ cursorRow # NoRow
           THEN /\ tLast' = cursorRow
                /\ pcT' = "t_tip"
           ELSE UNCHANGED << tLast, pcT >>
    /\ UNCHANGED << offIngest, cfg, chainTip, cursorRow, store, hVars, tCur, tAttempts,
                    atStart, histH, tWrote, covered, lost >>

\* 289-294: get_current_block_number(..)?; current_block <= last_synced: return Ok(0)
TTip ==
    /\ pcT = "t_tip"
    /\ \E ok \in Outcomes :
        /\ Spend(ok)
        /\ IF ok
           THEN /\ tCur' = chainTip
                /\ pcT' = IF chainTip <= tLast THEN "t_read" ELSE "t_fetch"
           ELSE /\ pcT' = "t_read"
                /\ UNCHANGED tCur
    /\ UNCHANGED << offIngest, cfg, chainTip, cursorRow, store, hVars, tLast, tAttempts,
                    atStart, histH, tWrote, covered, lost >>

\* 305: the window of sync_latest_blocks is [last_synced + 1, current_block]
TFrom == tLast + 1

\* 329-354: one turn of the retry loop of sync_block_range; 356-427 when
\* the reply holds no events (358-359: a reply without "result" holds none)
TFetch ==
    /\ pcT = "t_fetch"
    /\ IF tAttempts >= cfg.retries
       THEN /\ TWindowFailed
            /\ UNCHANGED faultsLeft
       ELSE \E r \in Replies :
                /\ Spend(r = "events")
                /\ IF r = "err"
                   THEN IF tAttempts + 1 < cfg.retries
                        THEN /\ tAttempts' = tAttempts + 1
                             /\ UNCHANGED << pcT, tLast, tCur, tWrote, cursorRow, store,
                                             covered, lost >>
                        ELSE TWindowFailed
                   ELSE /\ tAttempts' = 0
                        /\ IF r = "events" /\ Records(TFrom, tCur) # {}
                           THEN /\ pcT' = "t_insert"
                                /\ UNCHANGED << covered, lost >>
                           ELSE /\ pcT' = "t_write"
                                /\ Persisted(TFrom, tCur)
                        /\ UNCHANGED << tLast, tCur, tWrote, cursorRow, store >>
    /\ UNCHANGED << offIngest, cfg, chainTip, hVars, atStart, histH >>

\* 423-425: insert_events(&events)?
TInsert ==
    /\ pcT = "t_insert"
    /\ \E ok \in Outcomes :
        /\ Spend(ok)
        /\ IF ok
           THEN /\ store' = InsertEvents(store, Records(TFrom, tCur))
                /\ Persisted(TFrom, tCur)
                /\ pcT' = "t_write"
                /\ UNCHANGED << tLast, tCur, tAttempts, tWrote, cursorRow >>
           ELSE TWindowFailed
    /\ UNCHANGED << offIngest, cfg, chainTip, hVars, atStart, histH >>

\* 312: update_indexer_state(.., current_block)?
TWrite ==
    /\ pcT = "t_write"
    /\ \E ok \in Outcomes :
        /\ Spend(ok)
        /\ cursorRow' = IF ok THEN CursorAfterWindow(TRUE, cursorRow, tCur) ELSE cursorRow
        /\ tWrote' = (tWrote \/ ok)
        /\ pcT' = "t_read"
    /\ UNCHANGED << offIngest, cfg, chainTip, store, hVars, tLast, tCur, tAttempts, atStart,
                    histH, covered, lost >>

\* ------------------------------------------------------------ the chain
\* the chain gains a block
ChainGrows ==
    /\ chainTip < MaxBlock + 1
    /\ chainTip' = chainTip + 1
    /\ UNCHANGED << offIngest, cfg, cursorRow, store, faultsLeft, hVars, tVars, atStart, histH,
                    tWrote, covered, lost >>

HistStep == BootTip \/ BootState \/ HRead \/ HTip \/ HFetch \/ HInsert \/ HWrite

TailStep == TRead \/ TTip \/ TFetch \/ TInsert \/ TWrite

Next == HistStep \/ TailStep \/ ChainGrows

Spec == Init /\ [][Next]_vars

\* Runs in which at most f calls fail, for every f up to MaxFaults; the
\* runtime keeps polling every spawned task that can take a step
FairInit ==
    /\ \E c \in Configs \cup {S2Scenario}, f \in 0..MaxFaults : InitWith(c, f)
    /\ OffIngestInit

FairSpec == FairInit /\ [][Next]_vars /\ WF_vars(HistStep) /\ WF_vars(TailStep)

\* ============================================================== claims
\* a task holds a window: it has chosen it and has not yet ended it
HInFlight == pcH \in {"h_fetch", "h_insert", "h_write"}
TInFlight == pcT \in {"t_fetch", "t_insert", "t_write"}

\* chunk_size and max_retries are at least 1, as in the default configuration
NormalCfg == cfg.chunk >= 1 /\ cfg.retries >= 1

\* the block this run starts from
RunStart == EffectiveStart(atStart.row, cfg.start)

\* the step ends a catch-up window with an error of sync_block_range
HWindowErrStep ==
    /\ pcH \in {"h_fetch", "h_insert"}
    /\ Len(hWins') = Len(hWins) + 1

\* the step ends a tailing window with an error of sync_block_range
TWindowErrStep ==
    /\ pcT \in {"t_fetch", "t_insert"}
    /\ pcT' = "t_read"

\* no call has failed so far
NoFault == faultsLeft = MaxFaults

\* The statements below that the engine does not meet are stated for
\* configurations with NormalCfg, and where they do not depend on a failing
\* call for runs with NoFault, so that what refutes them is an ordinary run.

\* C1: the stored last_synced_block never decreases while catch-up and
\* tailing run concurrently: no step replaces the stored value by a lower one.
CursorMonotone ==
    [][(NormalCfg /\ NoFault' /\ cursorRow # NoRow)
            => (cursorRow' # NoRow /\ cursorRow' >= cursorRow)]_vars

\* C2: every block from the run's starting block up to the stored cursor lies
\* in a window that was fetched and persisted, that is, one sync_block_range
\* returned Ok for (blocks up to the cursor found at start-up were covered by
\* the run that stored it).
CursorCompleteness ==
    (NormalCfg /\ cursorRow # NoRow) =>
        \A b \in Blocks(RunStart, cursorRow) :
            b \in covered \/ (atStart.row # NoRow /\ b <= atStart.row)

\* C3: a step in which sync_block_range fails for a window, in catch-up or in
\* tailing, leaves the cursor row as it was.
FailedWindowKeepsCursor ==
    [][(HWindowErrStep \/ TWindowErrStep) => cursorRow' = cursorRow]_vars

\* C3 witness: a catch-up window has failed and the cursor row is the one
\* found at start-up.
FailedWindowSeen ==
    /\ ~hAllOk
    /\ pcH \in {"h_fetch", "h_done"}
    /\ atStart.row # NoRow
    /\ cursorRow = atStart.row
    /\ ~tWrote

\* blocks of failed catch-up windows that no window has fetched and persisted
NeverFetched == { b \in lost \ covered : b > atStart.row }

\* C4: once calls succeed, the blocks of every failed catch-up window are
\* eventually fetched again and persisted (stated for a contract whose cursor
\* row exists, and for the blocks above the cursor found at start-up).
FailedWindowRetried ==
    (NormalCfg /\ faultsLeft = 0 /\ cursorRow # NoRow /\ NeverFetched # {})
        ~> (NeverFetched = {})

\* C5: catch-up and tailing never both hold a window against the cursor row.
SingleWindowInFlight == (NormalCfg /\ NoFault) => ~(HInFlight /\ TInFlight)

\* the cursor the engine works from: the stored one, or the bootstrap value
CursorValue == IF cursorRow = NoRow THEN EffectiveStart(NoRow, cfg.start) ELSE cursorRow

\* C6: once the tailing task runs and calls succeed, a chain tip above the
\* cursor is eventually caught up with: last_synced_block reaches
\* current_block (stated for the time after catch-up returned Ok with no
\* failed window).
TailingProgress ==
    (/\ pcT # "t_idle" /\ NormalCfg /\ faultsLeft = 0
     /\ pcH = "h_done" /\ hAllOk /\ CursorValue < chainTip)
        ~> (cursorRow # NoRow /\ cursorRow >= chainTip)

\* C7: cold start at the tip: no cursor row, start_block 0, current_block 0;
\* when catch-up returns, the row exists with last_synced_block 0 (while the
\* chain has not moved), no event is stored, and tailing runs.
ColdStartAtTip ==
    (/\ NormalCfg /\ NoFault /\ atStart.row = NoRow /\ cfg.start = 0 /\ atStart.tip = 0
     /\ pcH = "h_done" /\ hCur = 0)
    => /\ cursorRow # NoRow
       /\ chainTip = 0 => (cursorRow = 0 /\ store = {})
       /\ pcT # "t_idle"

\* the cursor before catch-up window i: the end of the window before it
CursorBefore(i) == IF i = 1 THEN hLast ELSE hWins[i - 1].to

CatchUpReachesTip ==
    (/\ NormalCfg /\ NoFault /\ pcH = "h_done" /\ hAllOk /\ ~tWrote
     /\ hLast < hCur)
    => cursorRow = hCur

\* C10: with start_block configured above the stored cursor, every window
\* for which get_events was issued starts at or above start_block.
StartBlockFloor ==
    (/\ NormalCfg /\ NoFault
     /\ cfg.start # NoStart /\ atStart.row # NoRow /\ atStart.row < cfg.start)
    => /\ pcH \in {"h_insert", "h_write"} => hFrom >= cfg.start
       /\ pcT \in {"t_insert", "t_write"} => TFrom >= cfg.start

\* =========================================== rpc_call, starknet.rs 22-58
\* starknet.rs 23
RpcMaxRetries == 3

\* What one awaited request can end in: the status of the response with a
\* body that parses ("200", "429", "500"), status 200 with a body that is not
\* JSON, a failed send (35), a failed read of the body (38)
HttpOutcomes == {"200", "200_badjson", "429", "500", "net_err", "body_err"}

\* 42: the test made with attempt already incremented for this request
MayRetry(attempt) == attempt <= RpcMaxRetries

\* 43: the seconds slept before the next request
BackoffDelayLinear(attempt) == Min(2 * attempt, 30)

BackoffDelay(attempt) == Min(2 ^ attempt, 30)

\* 35, 38, 48, 53, 56: what rpc_call returns when the request that ended in o
\* is its last one
RpcResult(o) ==
    CASE o = "200"         -> "ok"
      [] o = "200_badjson" -> "json parse error"
      [] o = "429"         -> "rpc status 429 after retries"
      [] o = "500"         -> "rpc status"
      [] o = "net_err"     -> "network error"
      [] o = "body_err"    -> "body error"

\* a caller invokes rpc_call (23-24)
RpcCall ==
    /\ rpc.pc = "idle"
    /\ Len(rpc.log) < MaxCalls
    /\ rpc' = [rpc EXCEPT !.pc = "send", !.attempt = 0, !.replies = << >>,
                          !.waits = << >>]
    /\ UNCHANGED << ingestVars, bus, db, call, api >>

\* 27-56: attempt += 1, the request and its response
RpcSend ==
    /\ rpc.pc = "send"
    /\ \E o \in HttpOutcomes :
        LET attempt == rpc.attempt + 1
            replies == Append(rpc.replies, o)
        IN  IF o = "429" /\ MayRetry(attempt)
            THEN rpc' = [rpc EXCEPT !.pc = "sleep", !.attempt = attempt,
                                    !.replies = replies]
            ELSE rpc' = [rpc EXCEPT !.pc = "idle", !.attempt = attempt,
                                    !.replies = replies,
                                    !.log = Append(@, [replies |-> replies,
                                                       waits |-> rpc.waits,
                                                       result |-> RpcResult(o)])]
    /\ UNCHANGED << ingestVars, bus, db, call, api >>

\* 43-46: the sleep is over, continue
RpcWake ==
    /\ rpc.pc = "sleep"
    /\ rpc' = [rpc EXCEPT !.pc = "send",
                          !.waits = Append(@, BackoffDelay(rpc.attempt))]
    /\ UNCHANGED << ingestVars, bus, db, call, api >>

RpcNext == RpcCall \/ RpcSend \/ RpcWake

\* The ingestion engine is at rest while the wrapper is looked at
IngestAtRest == InitWith(S2Scenario, 0)

RpcSpecInit == IngestAtRest /\ OffIngestInit

\* every request is answered or fails, and every sleep ends
RpcSpec == RpcSpecInit /\ [][RpcNext]_vars /\ WF_vars(RpcSend) /\ WF_vars(RpcWake)

\* ------------------------------------------------------------ C11
\* the waits of a call that made n requests
BackoffPlan(n) == SubSeq(<< 2, 4, 8 >>, 1, n - 1)

RpcCallBounded(c) ==
    /\ Len(c.replies) \in 1..4
    /\ \A i \in 1..(Len(c.replies) - 1) : c.replies[i] = "429"
    /\ c.waits = BackoffPlan(Len(c.replies))
    /\ (c.replies = << "429", "429", "429", "429" >> => c.result # "ok")
    /\ (c.replies = << "429", "429", "200" >> => c.result = "ok")

RpcInProgress == rpc.pc # "idle"

TransferOnC == [id |-> << 1, 0 >>, contract_address |-> "C",
                event_type |-> "Transfer", raw_keys |-> << "k1" >>]
MintOnC     == [id |-> << 2, 0 >>, contract_address |-> "C",
                event_type |-> "Mint", raw_keys |-> << "k2" >>]
TransferOnD == [id |-> << 3, 0 >>, contract_address |-> "D",
                event_type |-> "Transfer", raw_keys |-> << "k1" >>]

BusEvents == {TransferOnC, MintOnC, TransferOnD}

Filter(c, types, keys) ==
    [contract_address |-> c, event_types |-> types, event_keys |-> keys]

\* the filters subscribers pass
SubFilters ==
    { Filter("C", None, None),
      Filter("C", Some(<< "Transfer" >>), None),
      Filter("C", Some(<< >>), None),
      Filter("C", None, Some(<< "k2", "k3" >>)),
      Filter("C", None, Some(<< >>)),
      Filter("D", None, None) }

Elems(vec) == { vec[i] : i \in 1..Len(vec) }

\* realtime.rs 82-106
MatchesFilter(event, filter) ==
    /\ event.contract_address = filter.contract_address
    /\ (filter.event_types.some => event.event_type \in Elems(filter.event_types.v))
    /\ (filter.event_keys.some =>
            Elems(filter.event_keys.v) \cap Elems(event.raw_keys) # {})

\* a run may start with subscription s1 already there, its receiver never
\* polled and its channel holding SubChannelCap events
BusFull ==
    [BusEmpty EXCEPT !.subs["s1"] = Filter("C", None, None),
                     !.rx["s1"] = "open",
                     !.chan["s1"] = [i \in 1..SubChannelCap |-> TransferOnC],
                     !.base = SubChannelCap]

\* realtime.rs 38-54: subscribe, under the write lock
Subscribe(id, filter) ==
    /\ bus.pc = "idle"
    /\ bus.rx[id] = "none"
    /\ bus' = [bus EXCEPT !.subs[id] = filter, !.rx[id] = "open",
                          !.from[id] = bus.base + Len(bus.calls)]
    /\ UNCHANGED << ingestVars, rpc, db, call, api >>

\* unsubscribe that removes the entry without waiting for the lock
UnsubscribeNoLock(id) ==
    /\ bus.subs[id] # NoSub
    /\ bus' = [bus EXCEPT !.subs[id] = NoSub]
    /\ UNCHANGED << ingestVars, rpc, db, call, api >>

\* realtime.rs 57-60: unsubscribe of a recorded id, under the write lock; the
\* Sender is dropped with the entry
Unsubscribe(id) ==
    /\ bus.pc = "idle"
    /\ bus.subs[id] # NoSub
    /\ bus' = [bus EXCEPT !.subs[id] = NoSub]
    /\ UNCHANGED << ingestVars, rpc, db, call, api >>

\* realtime.rs 62-71: broadcast_event takes the read lock and collects the
\* senders of the matching subscriptions
BroadcastBegin(event) ==
    /\ bus.pc = "idle"
    /\ Len(bus.calls) < MaxPublished
    /\ bus' = [bus EXCEPT !.pc = "sending",
                          !.calls = Append(@, event),
                          !.pending = { i \in SubIds : /\ bus.subs[i] # NoSub
                                                       /\ MatchesFilter(event, bus.subs[i]) }]
    /\ UNCHANGED << ingestVars, rpc, db, call, api >>

\* realtime.rs 75: broadcast::Sender::send returns at once whatever the
\* receiver does
SendReadyRoom(id) == Len(bus.chan[id]) < SubChannelCap

SendReady(id) == TRUE

\* the channel after send(event): a full channel drops its oldest value
ChanAfterSend(chan, event) ==
    IF Len(chan) < SubChannelCap THEN Append(chan, event)
    ELSE Append(Tail(chan), event)

\* realtime.rs 74-76: let _ = sender.send(event.clone()); a send to a channel
\* whose receiver is gone is an error, dropped
BroadcastSend(id) ==
    /\ bus.pc = "sending"
    /\ id \in bus.pending
    /\ SendReady(id)
    /\ LET event == bus.calls[Len(bus.calls)]
       IN  IF bus.rx[id] = "open"
           THEN bus' = [bus EXCEPT
                    !.pending = @ \ {id},
                    !.chan[id] = ChanAfterSend(@, event),
                    !.missed[id] = IF Len(bus.chan[id]) < SubChannelCap THEN @ ELSE @ + 1]
           ELSE bus' = [bus EXCEPT !.pending = @ \ {id}]
    /\ UNCHANGED << ingestVars, rpc, db, call, api >>

\* realtime.rs 79-80: the send on event_sender, whose only receiver was
\* dropped in new (31), fails; the read lock is released
BroadcastEnd ==
    /\ bus.pc = "sending"
    /\ bus.pending = {}
    /\ bus' = [bus EXCEPT !.pc = "idle"]
    /\ UNCHANGED << ingestVars, rpc, db, call, api >>

\* the holder of the Receiver returned by subscribe takes the next event
Recv(id) ==
    /\ bus.rx[id] = "open"
    /\ bus.chan[id] # << >>
    /\ Len(bus.got[id]) < MaxRecv
    /\ bus' = [bus EXCEPT !.got[id] = Append(@, Head(bus.chan[id])),
                          !.chan[id] = Tail(@)]
    /\ UNCHANGED << ingestVars, rpc, db, call, api >>

\* the holder drops the Receiver
DropReceiver(id) ==
    /\ bus.rx[id] = "open"
    /\ bus' = [bus EXCEPT !.rx[id] = "dropped", !.chan[id] = << >>]
    /\ UNCHANGED << ingestVars, rpc, db, call, api >>

PublisherStep ==
    \/ \E event \in BusEvents : BroadcastBegin(event)
    \/ \E id \in SubIds : BroadcastSend(id)
    \/ BroadcastEnd

SubscriberStep ==
    \/ \E id \in SubIds, filter \in SubFilters : Subscribe(id, filter)
    \/ \E id \in SubIds : Unsubscribe(id)
    \/ \E id \in SubIds : Recv(id)
    \/ \E id \in SubIds : DropReceiver(id)

BusNext == PublisherStep \/ SubscriberStep

BusSpecInit ==
    /\ IngestAtRest /\ RpcInit /\ db = DbEmpty /\ call = NoCall /\ api = ApiEmpty
    /\ bus \in {BusEmpty, BusFull}

\* the publisher's task is scheduled whenever it can step; nothing is
\* assumed of the subscribers
BusSpec == BusSpecInit /\ [][BusNext]_vars /\ WF_vars(PublisherStep)

\* ------------------------------------------------------------ C12
\* the blocks the chain's log spans, with one more on each side
LogBlocks == 0..(ChainLog[Len(ChainLog)].block + 1)

\* every record a window can build from the chain's log
AllRecords == UNION { Records(f, t) : f \in LogBlocks, t \in LogBlocks }

\* the tailing task is at the insert_events of a window that holds e, in a
\* run of an ordinary configuration in which no further call fails
TailPersists(e) ==
    /\ NormalCfg /\ faultsLeft = 0
    /\ pcT = "t_insert" /\ e \in Records(TFrom, tCur)

\* broadcast_event has been called with e
Broadcast(e) == \E i \in 1..Len(bus.calls) : bus.calls[i].id = e.id

\* C12: every event a tailing window has persisted is afterwards passed to
\* broadcast_event.
PersistedThenPublished == \A e \in AllRecords : TailPersists(e) ~> Broadcast(e)

\* ------------------------------------------------------------ C16
\* C16: a row of the events table is never replaced by a row that holds a
\* different chain log under the same id.
IdKeepsItsLog ==
    [][\A old \in store, new \in store' :
          (NormalCfg /\ old.id = new.id) => old.raw_data = new.raw_data]_vars

\* ------------------------------------------------------------ C17
\* the chain logs that have a row
Visible(rows) == { r.raw_data : r \in rows }

\* C17: when a chain log of a block above the cursor found at start-up
\* becomes visible, no log of a higher block is visible already.
VisibleInBlockOrder ==
    [][\A a \in store', b \in store :
          (/\ NormalCfg /\ a.block > atStart.row
           /\ a.raw_data \notin Visible(store)) => ~(a.block < b.block)]_vars

\* ------------------------------------------------------------ C13
\* the match predicate as the specification words it: an absent or empty
\* list constrains nothing
MatchesAsSpecified(event, filter) ==
    /\ event.contract_address = filter.contract_address
    /\ \/ ~filter.event_types.some
       \/ filter.event_types.v = << >>
       \/ event.event_type \in Elems(filter.event_types.v)
    /\ \/ ~filter.event_keys.some
       \/ filter.event_keys.v = << >>
       \/ Elems(filter.event_keys.v) \cap Elems(event.raw_keys) # {}

LastCall(b) == b.calls[Len(b.calls)]

\* C13: broadcast_event sends the event to exactly the subscriptions whose
\* filter has the event's contract_address, has event_types absent, empty or
\* holding the event's type, and has event_keys absent, empty or sharing an
\* element with the event's raw_keys.
SendsIffMatch ==
    [][(bus.pc = "idle" /\ bus'.pc = "sending") =>
          bus'.pending = { i \in SubIds : /\ bus.subs[i] # NoSub
                                          /\ MatchesAsSpecified(LastCall(bus'), bus.subs[i]) }]_vars

\* ------------------------------------------------------------ C14
\* the events broadcast_event was called with after subscribe(id) returned
Since(id) == SubSeq(bus.calls, bus.from[id] - bus.base + 1, Len(bus.calls))

\* what the receiver of id has taken followed by what waits in its channel
Delivered(id) == bus.got[id] \o bus.chan[id]

\* the subscriber of id subscribed in this run, keeps its receiver and has
\* lost nothing to a full channel
Attentive(id) ==
    /\ bus.subs[id] # NoSub /\ bus.rx[id] = "open" /\ bus.missed[id] = 0
    /\ bus.from[id] >= bus.base

\* C14: between two broadcasts, what an attentive subscriber has been
\* delivered is exactly the events published since its subscribe that match
\* its filter, each once and in publish order.
ExactDelivery ==
    bus.pc = "idle" =>
        \A id \in SubIds :
            Attentive(id) =>
                Delivered(id) = SelectSeq(Since(id),
                                    LAMBDA e : MatchesAsSpecified(e, bus.subs[id]))

\* ------------------------------------------------------------ C15
\* C15: every broadcast_event that has begun completes, whatever the
\* subscribers do or fail to do, and when it has completed every subscription
\* with a receiver whose filter matches the event holds it as its newest.
PublishNeverBlocks ==
    /\ [](bus.pc = "idle" /\ bus.calls # << >> =>
            \A id \in SubIds :
                (/\ bus.subs[id] # NoSub /\ bus.rx[id] = "open"
                 /\ bus.from[id] < bus.base + Len(bus.calls)
                 /\ MatchesFilter(LastCall(bus), bus.subs[id]))
                => /\ Delivered(id) # << >>
                   /\ Delivered(id)[Len(Delivered(id))] = LastCall(bus))
    /\ ((bus.pc = "sending") ~> (bus.pc = "idle"))

\* a broadcast has completed with s1's channel full and overflowed, s2's
\* receiver dropped, both matching the event, and s1 holding it
PublishedPastFullAndClosed ==
    /\ bus.pc = "idle"
    /\ bus.missed["s1"] > 0
    /\ bus.rx["s2"] = "dropped" /\ bus.subs["s2"] # NoSub
    /\ bus.calls # << >>
    /\ bus.from["s2"] < bus.base + Len(bus.calls)
    /\ MatchesFilter(LastCall(bus), bus.subs["s2"])
    /\ MatchesFilter(LastCall(bus), bus.subs["s1"])
    /\ bus.chan["s1"][SubChannelCap] = LastCall(bus)

\* ============================ the events table and its queries, database.rs
\* Option<u64>, Option<DateTime<Utc>>, Option<&str> values (None)
NoBound == -1
NoTx == "none"

\* database.rs 580
I32Max == 2147483647

\* A felt key is its sequence of hex digits
Key1  == << 1 >>
Key12 == << 1, 2 >>
Key3  == << 3 >>

Row(id, c, type, block, ts, tx, keys) ==
    [id |-> id, contract_address |-> c, event_type |-> type, block_number |-> block,
     log_index |-> 0, timestamp |-> ts, transaction_hash |-> tx, raw_keys |-> keys]

\* EventRecord values batches are made of; the last one is a second
\* decoding of the first, under the same id
QRows ==
    { Row("t1:0", "C", "Transfer", 1, 10, "t1", << Key12 >>),
      Row("t2:0", "C", "Mint",     2, 20, "t2", << Key3 >>),
      Row("t3:0", "C", "Transfer", 3, 30, "t3", << Key1 >>),
      Row("t4:0", "D", "Transfer", 2, 20, "t4", << Key1 >>),
      Row("t1:0", "C", "Mint",     1, 10, "t1", << Key12 >>) }

DbBatches == { << a >> : a \in QRows } \cup { << a, b >> : a \in QRows, b \in QRows }

TypeFilters == { None, Some(<< >>), Some(<< "Transfer" >>) }

OrderBys == { "None", "BlockNumberDesc", "BlockNumberAsc", "TimestampDesc", "TimestampAsc" }

\* arguments of get_events_with_advanced_filters
Args(types, keys, from, to, fromTs, toTs, tx, limit, offset, order) ==
    [contract_address |-> "C", event_types |-> types, event_keys |-> keys,
     from_block |-> from, to_block |-> to,
     from_timestamp |-> fromTs, to_timestamp |-> toTs, transaction_hash |-> tx,
     limit |-> limit, offset |-> offset, order_by |-> order]

\* the queries asked: pages of the unfiltered listing in every order, every
\* combination of the type, key, block and transaction filters on the first
\* two offsets, and the timestamp ranges
QueryArgs ==
    { Args(None, None, NoBound, NoBound, NoBound, NoBound, NoTx, l, o, ord) :
        l \in 1..MaxLimit, o \in 0..MaxOffset, ord \in OrderBys }
    \cup
    { Args(ty, ks, f, t, NoBound, NoBound, tx, MaxLimit, o, "None") :
        ty \in TypeFilters, ks \in { None, Some(<< Key1 >>) },
        f \in {NoBound, 2}, t \in {NoBound, 2}, tx \in {NoTx, "t1"}, o \in {0, 1} }
    \cup
    { Args(None, None, NoBound, NoBound, fts, tts, NoTx, MaxLimit, 0, "None") :
        fts \in {NoBound, 20}, tts \in {NoBound, 20} }

\* database.rs 255-278: the rows after the statements of the transaction,
\* one INSERT OR REPLACE per event of the slice, in order
RECURSIVE InsertBatch(_, _)
InsertBatch(rows, batch) ==
    IF batch = << >> THEN rows
    ELSE InsertBatch(InsertEvents(rows, {Head(batch)}), Tail(batch))

\* database.rs 407-412: a comes before b under the ORDER BY clause
Before(a, b, order_by) ==
    CASE order_by \in {"None", "BlockNumberDesc"} ->
            \/ a.block_number > b.block_number
            \/ a.block_number = b.block_number /\ a.log_index > b.log_index
      [] order_by = "BlockNumberAsc" ->
            \/ a.block_number < b.block_number
            \/ a.block_number = b.block_number /\ a.log_index < b.log_index
      [] order_by = "TimestampDesc" ->
            \/ a.timestamp > b.timestamp
            \/ a.timestamp = b.timestamp /\ a.log_index > b.log_index
      [] order_by = "TimestampAsc" ->
            \/ a.timestamp < b.timestamp
            \/ a.timestamp = b.timestamp /\ a.log_index < b.log_index

\* the rows of a SELECT in the order of its ORDER BY clause
RECURSIVE Sorted(_, _)
Sorted(rows, order_by) ==
    IF rows = {} THEN << >>
    ELSE LET first == CHOOSE a \in rows : \A b \in rows : ~Before(b, a, order_by)
         IN  << first >> \o Sorted(rows \ {first}, order_by)

\* Iterator::take, Iterator::skip
Take(seq, n) == SubSeq(seq, 1, Min(n, Len(seq)))
Skip(seq, n) == SubSeq(seq, n + 1, Len(seq))

\* LIMIT limit OFFSET offset
LimitOffset(seq, limit, offset) == Take(Skip(seq, offset), limit)

\* database.rs 393-517 (and 282-391, the same with the default order)
GetEventsWithOrdering(rows, address, event_types, from_block, to_block, limit, offset, order_by) ==
    LET ofContract == { r \in rows : r.contract_address = address }
        inRange == { r \in ofContract :
                        /\ (from_block # NoBound => r.block_number >= from_block)
                        /\ (to_block # NoBound => r.block_number <= to_block) }
        \* 415-479: the four statements for event_types = None, each with
        \* LIMIT ? OFFSET ?; 481-491: any other case selects on the contract only
        fetched == IF ~event_types.some
                   THEN LimitOffset(Sorted(inRange, order_by), limit, offset)
                   ELSE Sorted(ofContract, order_by)
        \* 495: rows.into_iter().take(limit).skip(offset)
        taken == Skip(Take(fetched, limit), offset)
    IN  \* 498-503
        SelectSeq(taken, LAMBDA r :
            event_types.some => r.event_type \in Elems(event_types.v))

GetEvents(rows, address, event_types, from_block, to_block, limit, offset) ==
    GetEventsWithOrdering(rows, address, event_types, from_block, to_block,
                          limit, offset, "BlockNumberDesc")

\* str::contains on the keys' digits
KeyContains(key, part) ==
    \E i \in 0..(Len(key) - Len(part)) : SubSeq(key, i + 1, i + Len(part)) = part

\* database.rs 606-637: the closure of events.retain
Retained(r, a) ==
    /\ a.event_keys.some =>
           \E fk \in Elems(a.event_keys.v) : \E k \in Elems(r.raw_keys) : KeyContains(k, fk)
    /\ a.from_timestamp # NoBound => ~(r.timestamp < a.from_timestamp)
    /\ a.to_timestamp # NoBound => ~(r.timestamp > a.to_timestamp)
    /\ a.transaction_hash # NoTx => r.transaction_hash = a.transaction_hash

\* database.rs 586-644
GetEventsWithAdvancedFilters(rows, a) ==
    LET events == GetEventsWithOrdering(rows, a.contract_address, a.event_types,
                                        a.from_block, a.to_block, a.limit * 2,
                                        a.offset, a.order_by)
    IN  Take(SelectSeq(events, LAMBDA r : Retained(r, a)), a.limit)

\* database.rs 560-584
CountEvents(rows, address, event_types) ==
    IF ~event_types.some \/ event_types.v = << >>
    THEN Cardinality({ r \in rows : r.contract_address = address })
    ELSE Len(GetEvents(rows, address, event_types, NoBound, NoBound, I32Max, 0))

\* insert_events(batch): the transaction commits (ok) or is rolled back
\* database.rs 276-277: an Err leaves insert_events through ?, tx is dropped
\* uncommitted and sqlx rolls it back: the table holds what it held
RolledBackPartial(rows, work) == work

RolledBack(rows, work) == rows

\* the record of an insert_events call that returned Err
InsertFailed(d) ==
    [d EXCEPT !.rows = RolledBack(d.rows, d.tx.work),
              !.op = "insert_failed", !.batch = d.tx.batch,
              !.args = << >>, !.result = << >>, !.before = d.tx.began,
              !.repeat = FALSE,
              !.tx = [NoTransaction EXCEPT !.done = d.tx.done]]

\* database.rs 250-253: insert_events of a batch that is not empty begins a
\* transaction on a connection of the pool (ok), or begin fails
DbBegin(batch, ok) ==
    /\ ~db.tx.open
    /\ LET begun == [db EXCEPT !.tx = [open |-> TRUE, batch |-> batch,
                                       began |-> db.rows, work |-> db.rows, left |-> batch, done |-> 0,
                                       repeat |-> (db.op = "insert" /\ db.batch = batch)]]
       IN  db' = IF ok THEN begun ELSE InsertFailed(begun)
    /\ UNCHANGED << ingestVars, rpc, bus, call, api >>

\* database.rs 255-275: the INSERT OR REPLACE of the next event executes in
\* the transaction (ok), or fails
DbExecute(ok) ==
    /\ db.tx.open
    /\ db.tx.left # << >>
    /\ db' = IF ok
             THEN [db EXCEPT !.tx.work = InsertEvents(@, {Head(db.tx.left)}),
                             !.tx.left = Tail(@),
                             !.tx.done = @ + 1]
             ELSE InsertFailed(db)
    /\ UNCHANGED << ingestVars, rpc, bus, call, api >>

\* database.rs 277-278: tx.commit() makes the transaction's rows the table's
\* (ok), or fails
DbCommit(ok) ==
    /\ db.tx.open
    /\ db.tx.left = << >>
    /\ db' = IF ok
             THEN [db EXCEPT !.rows = db.tx.work,
                             !.op = "insert", !.batch = db.tx.batch,
                             !.args = << >>, !.result = << >>, !.before = db.tx.began,
                             !.repeat = db.tx.repeat,
                             !.tx = [NoTransaction EXCEPT !.done = db.tx.done]]
             ELSE InsertFailed(db)
    /\ UNCHANGED << ingestVars, rpc, bus, call, api >>

\* get_events_with_advanced_filters(args), while no insert_events is in
\* progress
DbQuery(args) ==
    /\ ~db.tx.open
    /\ db' = [db EXCEPT !.op = "query", !.batch = << >>, !.args = args,
                        !.result = GetEventsWithAdvancedFilters(db.rows, args),
                        !.before = db.rows, !.repeat = FALSE]
    /\ UNCHANGED << ingestVars, rpc, bus, call, api >>

\* the readers that run on another connection of the pool while the
\* transaction of insert_events is open list a contract's events
ConcurrentReads ==
    { Args(None, None, NoBound, NoBound, NoBound, NoBound, NoTx, MaxLimit, 0, ord) :
        ord \in {"None", "BlockNumberAsc"} }

\* such a reader sees the committed rows
DbReadDuringInsert(args) ==
    /\ db.tx.open
    /\ db' = [db EXCEPT !.op = "query", !.batch = << >>, !.args = args,
                        !.result = GetEventsWithAdvancedFilters(db.rows, args),
                        !.before = db.rows, !.repeat = FALSE]
    /\ UNCHANGED << ingestVars, rpc, bus, call, api >>

QueryNext ==
    \/ \E batch \in DbBatches, ok \in BOOLEAN : DbBegin(batch, ok)
    \/ \E ok \in BOOLEAN : DbExecute(ok)
    \/ \E ok \in BOOLEAN : DbCommit(ok)
    \/ \E args \in QueryArgs : DbQuery(args)
    \/ \E args \in ConcurrentReads : DbReadDuringInsert(args)

QuerySpecInit == IngestAtRest /\ OffIngestInit

QuerySpec == QuerySpecInit /\ [][QueryNext]_vars

\* ------------------------------------------------------------ C18
\* r satisfies every filter the query supplies
Satisfies(r, a) ==
    /\ r.contract_address = a.contract_address
    /\ (a.event_types.some /\ a.event_types.v # << >>) =>
           r.event_type \in Elems(a.event_types.v)
    /\ (a.event_keys.some /\ a.event_keys.v # << >>) =>
           Elems(a.event_keys.v) \cap Elems(r.raw_keys) # {}
    /\ a.from_block # NoBound => r.block_number >= a.from_block
    /\ a.to_block # NoBound => r.block_number <= a.to_block
    /\ a.from_timestamp # NoBound => r.timestamp >= a.from_timestamp
    /\ a.to_timestamp # NoBound => r.timestamp <= a.to_timestamp
    /\ a.transaction_hash # NoTx => r.transaction_hash = a.transaction_hash

\* C18: every event a query returns satisfies every filter the query supplies.
FilterSoundness ==
    db.op = "query" => \A i \in 1..Len(db.result) : Satisfies(db.result[i], db.args)

\* ------------------------------------------------------------ C19
\* the query supplies the contract address only
Unfiltered(a) ==
    /\ ~a.event_types.some /\ ~a.event_keys.some
    /\ a.from_block = NoBound /\ a.to_block = NoBound
    /\ a.from_timestamp = NoBound /\ a.to_timestamp = NoBound
    /\ a.transaction_hash = NoTx

\* the complete ordered listing of the contract's events
Listing(rows, a) ==
    Sorted({ r \in rows : r.contract_address = a.contract_address }, a.order_by)

\* C19: a query of the unfiltered listing with offset o and limit l returns
\* exactly the events at positions o .. o+l-1 of the complete ordered listing.
ExactPages ==
    (db.op = "query" /\ Unfiltered(db.args)) =>
        db.result = LimitOffset(Listing(db.rows, db.args), db.args.limit, db.args.offset)

\* ------------------------------------------------------------ C20
\* C20: when insert_events has committed the batch it committed just before,
\* the events table and every count_events result are what they were after
\* the first time.
InsertIdempotent ==
    (db.op = "insert" /\ db.repeat) =>
        /\ db.rows = db.before
        /\ \A address \in {"C", "D"}, types \in TypeFilters :
               CountEvents(db.rows, address, types) = CountEvents(db.before, address, types)

\* a batch of two decodings of one log was committed twice over other rows
InsertedTwice ==
    /\ db.op = "insert" /\ db.repeat
    /\ Len(db.batch) = 2 /\ db.batch[1].id = db.batch[2].id /\ db.batch[1] # db.batch[2]
    /\ Cardinality(db.rows) >= 2
    /\ CountEvents(db.rows, "C", Some(<< "Transfer" >>)) >= 1

\* ------------------------------------------------------------ C21
\* C21: while the transaction of insert_events is open the table the readers
\* see is the table as it was when the transaction began, and when
\* insert_events has failed, at begin, at any of its statements or at the
\* commit, the table is what it was before the call.
BatchAtomicity ==
    /\ db.tx.open =>
           /\ db.rows = db.tx.began
           /\ db.op = "query" =>
                  db.result = GetEventsWithAdvancedFilters(db.tx.began, db.args)
    /\ (db.op = "insert_failed") => db.rows = db.before

\* insert_events failed after it had executed the insert of an event the
\* table did not hold
FailedAfterInsert ==
    /\ db.op = "insert_failed"
    /\ db.tx.done >= 1
    /\ db.batch[1] \notin db.before

\* ==================== the filter of sync_block_range, indexer.rs 360-418
\* a log of the reply with the event_type decode_event_using_abi gives it
Log(type, keys, tx) == [event_type |-> type, keys |-> keys, tx |-> tx]

ReplyLogs ==
    { Log("Transfer", << Key12 >>, "t1"),
      Log("Mint", << Key1 >>, "t2"),
      Log("Transfer", << Key3, Key1 >>, "t3"),
      Log("Transfer", << >>, "t4") }

RECURSIVE SeqsUpTo(_, _)
SeqsUpTo(S, n) ==
    IF n = 0 THEN { << >> }
    ELSE LET shorter == SeqsUpTo(S, n - 1)
         IN  shorter \cup { Append(q, x) : q \in shorter, x \in S }

\* the events arrays of the replies
EventsArrays == SeqsUpTo(ReplyLogs, MaxReply) \ { << >> }

\* IndexerConfig.event_types and event_keys
ConfiguredTypes == { None, Some(<< >>), Some(<< "Transfer" >>) }
ConfiguredKeys == { None, Some(<< >>), Some(<< Key1 >>), Some(<< Key3, Key12 >>) }

\* indexer.rs 364-368
PassesTypes(event_type, event_types) ==
    event_types.some => event_type \in Elems(event_types.v)

\* indexer.rs 371-383
PassesKeys(keys, event_keys) ==
    event_keys.some =>
        \E filter_key \in Elems(event_keys.v) :
            \E key \in Elems(keys) : KeyContains(key, filter_key)

\* indexer.rs 404-415
FilterRecord(ev, idx) ==
    [id |-> << ev.tx, idx >>, event_type |-> ev.event_type,
     transaction_hash |-> ev.tx, log_index |-> idx, raw_keys |-> ev.keys]

\* sync_block_range has the reply of get_events and an empty events Vec
FilterStart(event_types, event_keys, reply) ==
    call = [f |-> "filter", event_types |-> event_types, event_keys |-> event_keys,
            reply |-> reply, idx |-> 0, events |-> << >>]

\* indexer.rs 360-418: one iteration of the loop over the events array
FilterLog ==
    /\ call.f = "filter"
    /\ call.idx < Len(call.reply)
    /\ LET ev == call.reply[call.idx + 1]
       IN  call' = [call EXCEPT
                       !.idx = @ + 1,
                       !.events = IF /\ PassesTypes(ev.event_type, call.event_types)
                                     /\ PassesKeys(ev.keys, call.event_keys)
                                  THEN Append(@, FilterRecord(ev, call.idx))
                                  ELSE @]
    /\ UNCHANGED << ingestVars, rpc, bus, db, api >>

FilterNext == FilterLog

FilterSpecInit ==
    /\ IngestAtRest /\ RpcInit /\ bus = BusEmpty /\ db = DbEmpty /\ api = ApiEmpty
    /\ \E event_types \in ConfiguredTypes, event_keys \in ConfiguredKeys, reply \in EventsArrays :
           FilterStart(event_types, event_keys, reply)

FilterSpec == FilterSpecInit /\ [][FilterNext]_vars

\* ------------------------------------------------------------ C22
\* the log passes the configured filters as the claim words them
PassesAsSpecified(ev, event_types, event_keys) ==
    /\ event_types.some => ev.event_type \in Elems(event_types.v)
    /\ event_keys.some => Elems(ev.keys) \cap Elems(event_keys.v) # {}

\* C22: of the logs of the reply examined so far, the ones that have a
\* record in the batch to persist are exactly the ones whose event_type is in
\* event_types when it is configured and that have a key equal to one of
\* event_keys when it is configured.
IngestionFilterExact ==
    call.f = "filter" =>
        \A i \in 1..call.idx :
            (\E j \in 1..Len(call.events) : call.events[j].log_index = i - 1)
                <=> PassesAsSpecified(call.reply[i], call.event_types, call.event_keys)

\* ============================ normalize_address, database.rs 85-95
\* A string is the sequence of its characters.
AddrWidth == 64

Repeat(c, n) == [i \in 1..n |-> c]

\* the addresses normalize_address is applied to: a prefix, leading zeros,
\* and digits that begin with a digit other than 0
Prefixes == { << "0", "x" >>, << >>, << "0", "X" >>, << "x" >> }

Digits ==
    { << >> } \cup
    { << c >> \o Repeat(d, n - 1) : c \in {"1", "a"}, d \in {"0", "f"}, n \in 1..MaxDigits }

Addresses ==
    { p \o Repeat("0", z) \o d : p \in Prefixes, z \in 0..MaxZeros, d \in Digits }

\* database.rs 86: address.starts_with("0x")
StartsWith0x(address) ==
    Len(address) >= 2 /\ address[1] = "0" /\ address[2] = "x"

\* database.rs 90: &address[2..]
HexFromSecond(address) == SubSeq(address, 2, Len(address))

Hex(address) == SubSeq(address, 3, Len(address))

\* database.rs 91: hex.trim_start_matches('0')
RECURSIVE TrimStartZeros(_)
TrimStartZeros(hex) ==
    IF hex # << >> /\ Head(hex) = "0" THEN TrimStartZeros(Tail(hex)) ELSE hex

\* database.rs 93: format!("{:0>64}", hex_part) fills on the left up to the
\* width and leaves a longer string as it is
PadLeftAlways(hex_part) == Repeat("0", AddrWidth) \o hex_part

PadLeft(hex_part) ==
    IF Len(hex_part) < AddrWidth
    THEN Repeat("0", AddrWidth - Len(hex_part)) \o hex_part
    ELSE hex_part

\* database.rs 85-95
NormalizeAddress(address) ==
    IF ~StartsWith0x(address) THEN address
    ELSE LET trimmed == TrimStartZeros(Hex(address))
             hex_part == IF trimmed = << >> THEN << "0" >> ELSE trimmed
         IN  << "0", "x" >> \o PadLeft(hex_part)

\* normalize_address is about to be applied to x
NormalizeStart(x) ==
    call = [f |-> "normalize", x |-> x, n |-> 0, once |-> << >>, twice |-> << >>]

\* normalize_address is applied to x, then to its own result
Normalize ==
    /\ call.f = "normalize"
    /\ call.n < 2
    /\ call' = IF call.n = 0
               THEN [call EXCEPT !.n = 1, !.once = NormalizeAddress(call.x)]
               ELSE [call EXCEPT !.n = 2, !.twice = NormalizeAddress(call.once)]
    /\ UNCHANGED << ingestVars, rpc, bus, db, api >>

AddrNext == Normalize

AddrSpecInit ==
    /\ IngestAtRest /\ RpcInit /\ bus = BusEmpty /\ db = DbEmpty /\ api = ApiEmpty
    /\ \E x \in Addresses : NormalizeStart(x)

AddrSpec == AddrSpecInit /\ [][AddrNext]_vars

\* ------------------------------------------------------------ C23
\* C23: normalize_address applied to its own result returns that result, for
\* every input, with the 0x prefix or without it.
NormalizeIdempotent ==
    (call.f = "normalize" /\ call.n = 2) => call.twice = call.once

\* an address with the prefix, leading zeros and few digits was normalized
\* twice, the first time to another string
NormalizedTwice ==
    /\ call.f = "normalize" /\ call.n = 2
    /\ StartsWith0x(call.x) /\ Len(call.x) = 6 /\ call.x[3] = "0"
    /\ call.once # call.x

\* ------------------------------------------------------------ C24
\* C24: the result of normalize_address for an input that starts with 0x has
\* length 66, whatever the number of digits after the prefix.
CanonicalLength ==
    (call.f = "normalize" /\ call.n >= 1 /\ StartsWith0x(call.x)) =>
        Len(call.once) = AddrWidth + 2

\* the number of characters of x after the prefix and the leading zeros
Significant(x) ==
    LET rest == SubSeq(x, 3, Len(x))
        zeros == { i \in 1..Len(rest) : \A j \in 1..i : rest[j] = "0" }
    IN  Len(rest) - Cardinality(zeros)

\* C24, amended: the result for an input that starts with 0x has length 66
\* when at most 64 characters follow the prefix and the leading zeros, and
\* as many characters as follow them plus 2 otherwise.
CanonicalLengthUpToWidth ==
    (call.f = "normalize" /\ call.n >= 1 /\ StartsWith0x(call.x)) =>
        Len(call.once) = IF Significant(call.x) <= AddrWidth
                         THEN AddrWidth + 2
                         ELSE Significant(call.x) + 2

\* an address of leading zeros and 64 digits was normalized to 66 characters
NormalizedFullWidth ==
    /\ call.f = "normalize" /\ call.n >= 1
    /\ StartsWith0x(call.x) /\ Len(call.x) = AddrWidth + 4
    /\ Significant(call.x) = AddrWidth
    /\ Len(call.once) = AddrWidth + 2

\* ============================ decode_event_using_abi, starknet.rs 155-518
\* serde_json values: strings, booleans, null, arrays and objects (functions
\* from member names to values)
JString(x) == [json |-> "string", s |-> x, a |-> << >>]
JBool(b) == [json |-> "bool", s |-> IF b THEN "true" ELSE "false", a |-> << >>]
JNull == [json |-> "null", s |-> "", a |-> << >>]
JArray(xs) == [json |-> "array", s |-> "", a |-> xs]

\* an item of the ABI array; a name is the sequence of its :: segments
Member(name, type, kind) == [name |-> name, type |-> type, kind |-> kind]
Item(type, kind, name, members) ==
    [type |-> type, kind |-> kind, name |-> name, members |-> members]

TransferEvent ==
    Item("event", "struct", << "erc20", "Transfer" >>,
         << Member("from", "ContractAddress", "key"),
            Member("value", "core::array::Array::<felt252>", "data") >>)
ApprovalEvent ==
    Item("event", "struct", << "erc20", "Approval" >>,
         << Member("owner", "ContractAddress", "key"),
            Member("approved", "bool", "data") >>)
OtherTransferEvent ==
    Item("event", "struct", << "nft", "Transfer" >>,
         << Member("token", "bool", "data") >>)
EmptyEvent == Item("event", "struct", << "Paused" >>, << >>)
EnumEvent == Item("event", "enum", << "erc20", "Event" >>, << >>)
StructType ==
    Item("struct", "", << "core", "Pair" >>, << Member("a", "bool", "data") >>)
\* the event of scenario S5
TransferS5 ==
    Item("event", "struct", << "token", "Transfer" >>,
         << Member("from", "ContractAddress", "key"),
            Member("to", "ContractAddress", "key"),
            Member("value", "u256", "data") >>)

Abis ==
    { << >>,
      << StructType >>,
      << EnumEvent >>,
      << TransferEvent >>,
      << TransferEvent, ApprovalEvent >>,
      << EmptyEvent, TransferEvent, StructType >>,
      << TransferEvent, OtherTransferEvent >>,
      << TransferS5 >> }

LogKeys ==
    { << >>, << "0xabc" >>, << "0xsel", "0x1" >>, << "0xsel", "0xsel2", "0x1" >>,
      << "0xsel", "0xsel2", "0x1", "0x2" >>, << "0xsel", "0xAA", "0xBB" >> }
LogData == SeqsUpTo({"0x01", "0x02", "0x0"}, MaxData) \cup { << "0x64" >>, << "0xsel" >> }
DecoderLogs == { [keys |-> k, data |-> d] : k \in LogKeys, d \in LogData }

\* starknet.rs 191: name.split("::").last()
ShortName(name) == name[Len(name)]

\* starknet.rs 211-231: parse_type_definition keeps name, type and is_key
\* of each member
ParseTypeDefinition(item) ==
    [members |-> [i \in 1..Len(item.members) |->
                     [name |-> item.members[i].name,
                      type_name |-> item.members[i].type,
                      is_key |-> item.members[i].kind = "key"]]]

\* starknet.rs 170-208: parser.events after the pass over the ABI array; a
\* later event of the same short name replaces an earlier one
RECURSIVE ParserEvents(_)
ParserEvents(abi) ==
    IF abi = << >> THEN << >>
    ELSE LET before == ParserEvents(SubSeq(abi, 1, Len(abi) - 1))
             item == abi[Len(abi)]
         IN  IF item.type = "event" /\ item.kind = "struct"
             THEN [n \in DOMAIN before \cup {ShortName(item.name)} |->
                      IF n = ShortName(item.name) THEN ParseTypeDefinition(item)
                      ELSE before[n]]
             ELSE before

\* the characters of the values above that follow their 0x prefix
\* (trim_start_matches("0x")), each hex digit as its value and any other
\* character as NotDigit
NotDigit == 16
CharsAfter0x(value) ==
    CASE value = "0x0" -> << 0 >>
      [] value = "0x1" -> << 1 >>
      [] value = "0x2" -> << 2 >>
      [] value = "0x01" -> << 0, 1 >>
      [] value = "0x02" -> << 0, 2 >>
      [] value = "0x64" -> << 6, 4 >>
      [] value = "0xAA" -> << 10, 10 >>
      [] value = "0xBB" -> << 11, 11 >>
      [] value = "0xabc" -> << 10, 11, 12 >>
      [] value = "0xsel" -> << NotDigit, 14, NotDigit >>
      [] value = "0xsel2" -> << NotDigit, 14, NotDigit, 2 >>

\* u64::from_str_radix(.., 16) of a digit sequence that fits u64
RECURSIVE FromStrRadix16(_)
FromStrRadix16(chars) ==
    IF chars = << >> THEN 0
    ELSE 16 * FromStrRadix16(SubSeq(chars, 1, Len(chars) - 1)) + chars[Len(chars)]

\* from_str_radix returns Ok: at least one character, each a hex digit
IsHex(chars) == chars # << >> /\ \A i \in 1..Len(chars) : chars[i] # NotDigit

\* the decimal digits of a usize, as {} formats it
RECURSIVE Decimal(_)
Decimal(n) ==
    LET digit == << "0", "1", "2", "3", "4", "5", "6", "7", "8", "9" >>
    IN  IF n < 10 THEN digit[n + 1] ELSE Decimal(n \div 10) \o digit[(n % 10) + 1]

\* serde_json::Value::Number of a u64
JNumber(n) == [json |-> "number", s |-> Decimal(n), a |-> << >>]

\* starknet.rs 268-322: decode_basic_type for the types of the ABIs above
\* (None for any other type: the raw value is kept, 420-448)
DecodeValue(value, type_name) ==
    CASE type_name = "ContractAddress" -> JString(value)
      [] type_name = "bool" -> JBool(~(value \in {"0x0", "0"}))
      [] type_name = "u256" -> IF IsHex(CharsAfter0x(value))
                               THEN JNumber(FromStrRadix16(CharsAfter0x(value)))
                               ELSE JString(value)
      [] OTHER -> JString(value)

\* the members decoded with a key index that is never advanced
RECURSIVE DecodeMembersSameKey(_, _, _, _, _)
DecodeMembersSameKey(members, keys, data, key_index, data_index) ==
    IF members = << >> THEN << >>
    ELSE LET m == Head(members)
         IN  IF m.is_key
             THEN << << m.name, IF key_index < Len(keys)
                                THEN DecodeValue(keys[key_index + 1], m.type_name)
                                ELSE JNull >> >>
                  \o DecodeMembersSameKey(Tail(members), keys, data, key_index, data_index)
             ELSE IF data_index < Len(data)
                  THEN << << m.name, DecodeValue(data[data_index + 1], m.type_name) >> >>
                       \o DecodeMembersSameKey(Tail(members), keys, data, key_index, data_index + 1)
                  ELSE << << m.name, JNull >> >>
                       \o DecodeMembersSameKey(Tail(members), keys, data, key_index, data_index)

\* the position of a member's value and the indexes after it,
\* starknet.rs 451-471
RECURSIVE DecodeMembers(_, _, _, _, _)
DecodeMembers(members, keys, data, key_index, data_index) ==
    IF members = << >> THEN << >>
    ELSE LET m == Head(members)
         IN  IF m.is_key
             THEN IF key_index < Len(keys)
                  THEN << << m.name, DecodeValue(keys[key_index + 1], m.type_name) >> >>
                       \o DecodeMembers(Tail(members), keys, data, key_index + 1, data_index)
                  ELSE << << m.name, JNull >> >>
                       \o DecodeMembers(Tail(members), keys, data, key_index, data_index)
             ELSE IF data_index < Len(data)
                  THEN << << m.name, DecodeValue(data[data_index + 1], m.type_name) >> >>
                       \o DecodeMembers(Tail(members), keys, data, key_index, data_index + 1)
                  ELSE << << m.name, JNull >> >>
                       \o DecodeMembers(Tail(members), keys, data, key_index, data_index)

\* serde_json::Map after the inserts, in order; a later insert of a name
\* replaces the value
RECURSIVE Inserted(_)
Inserted(pairs) ==
    IF pairs = << >> THEN << >>
    ELSE LET before == Inserted(SubSeq(pairs, 1, Len(pairs) - 1))
             kv == pairs[Len(pairs)]
         IN  [n \in DOMAIN before \cup {kv[1]} |-> IF n = kv[1] THEN kv[2] ELSE before[n]]

RawArrays(log) ==
    << << "_keys", JArray([i \in 1..Len(log.keys) |-> JString(log.keys[i])]) >>,
       << "_raw_data", JArray([i \in 1..Len(log.data) |-> JString(log.data[i])]) >> >>

\* starknet.rs 483: the key slots skipped as event selectors
KeyIndexStart(event_def, keys) ==
    IF Len(keys) > Len(event_def.members) + 1 THEN 2 ELSE 1

\* starknet.rs 482-503: the object decoded against one event definition
DecodedAs(event_def, log) ==
    Inserted(DecodeMembers(event_def.members, log.keys, log.data,
                           KeyIndexStart(event_def, log.keys), 0)
             \o RawArrays(log))

\* starknet.rs 510: format!("field_{}", idx)
FieldNameFromOne(idx) == "field_" \o Decimal(idx + 1)

FieldName(idx) == "field_" \o Decimal(idx)

\* starknet.rs 508-517: the fallback
Unknown(log) ==
    [event_type |-> "Unknown",
     decoded |-> Inserted([i \in 1..Len(log.data) |->
                              << FieldName(i - 1), JString(log.data[i]) >>]
                          \o RawArrays(log))]

\* the orders in which a HashMap with these keys can be iterated
Orders(names) ==
    { o \in [1..Cardinality(names) -> names] : \A n \in names : \E i \in DOMAIN o : o[i] = n }

\* starknet.rs 480-505: the first event definition in iteration order that
\* has members decides
RECURSIVE FirstWithMembers(_, _, _)
FirstWithMembers(order, events, log) ==
    IF order = << >> THEN Unknown(log)
    ELSE IF events[Head(order)].members # << >>
         THEN [event_type |-> Head(order), decoded |-> DecodedAs(events[Head(order)], log)]
         ELSE FirstWithMembers(Tail(order), events, log)

\* decode_event_using_abi is about to be called with abi and log
DecodeStart(abi, log) ==
    call = [f |-> "decode", abi |-> abi, log |-> log, n |-> 0,
            first |-> Unknown([keys |-> << >>, data |-> << >>]),
            second |-> Unknown([keys |-> << >>, data |-> << >>])]

\* starknet.rs 473-518: one call; it builds its own AbiParser, whose events
\* HashMap is iterated in the order its RandomState gives
DecodeEventUsingAbi ==
    /\ call.f = "decode"
    /\ call.n < 2
    /\ LET events == ParserEvents(call.abi)
       IN  \E order \in Orders(DOMAIN events) :
              LET out == FirstWithMembers(order, events, call.log)
              IN  call' = IF call.n = 0
                          THEN [call EXCEPT !.n = 1, !.first = out]
                          ELSE [call EXCEPT !.n = 2, !.second = out]
    /\ UNCHANGED << ingestVars, rpc, bus, db, api >>

DecodeNext == DecodeEventUsingAbi

DecodeSpecInit ==
    /\ IngestAtRest /\ RpcInit /\ bus = BusEmpty /\ db = DbEmpty /\ api = ApiEmpty
    /\ \E abi \in Abis, log \in DecoderLogs : DecodeStart(abi, log)

DecodeSpec == DecodeSpecInit /\ [][DecodeNext]_vars

\* ------------------------------------------------------------ C25
\* C25: two calls of decode_event_using_abi with the same ABI and the same
\* log return the same event_type and the same decoded object.
DecoderDeterministic ==
    (call.f = "decode" /\ call.n = 2) => call.second = call.first

\* ------------------------------------------------------------ C26
\* the ABI has no event entry
NoEventEntries(abi) == \A i \in 1..Len(abi) : abi[i].type # "event"

\* C26: against an ABI with no event entries the call returns event_type
\* Unknown and an object whose members are exactly field_i = data[i] for
\* every index of data, _keys = the log's keys and _raw_data = the log's data.
UnknownPassthrough ==
    (call.f = "decode" /\ call.n >= 1 /\ NoEventEntries(call.abi)) =>
        /\ call.first.event_type = "Unknown"
        /\ DOMAIN call.first.decoded =
               { "field_" \o Decimal(i) : i \in 0..(Len(call.log.data) - 1) }
                   \cup {"_keys", "_raw_data"}
        /\ \A i \in 0..(Len(call.log.data) - 1) :
               call.first.decoded["field_" \o Decimal(i)] = JString(call.log.data[i + 1])
        /\ call.first.decoded["_keys"].a = [i \in 1..Len(call.log.keys) |-> JString(call.log.keys[i])]
        /\ call.first.decoded["_raw_data"].a = [i \in 1..Len(call.log.data) |-> JString(call.log.data[i])]

\* scenario S4: keys [0xabc], data [0x01, 0x02], an ABI without event entries
S4Decoded ==
    /\ call.f = "decode" /\ call.n >= 1
    /\ NoEventEntries(call.abi) /\ call.abi # << >>
    /\ call.log = [keys |-> << "0xabc" >>, data |-> << "0x01", "0x02" >>]
    /\ call.first.decoded["field_1"] = JString("0x02")

\* ============================ ApiKeyService, api_key_service.rs and database.rs
\* Option<DateTime<Utc>> (None) and Option<String> (None)
NoExpiry == -1
NoDeployment == "None"

Deployments == {"d1", "d2"}

\* the keys generate_api_key returns (k1, k2), a key issued by an earlier run
\* (k0) and a string that is no key (kx)
NewKeys == {"k1", "k2"}
ApiKeys == {"k0", "kx"} \cup NewKeys

\* api_key_service.rs 126-131: hash_api_key, the SHA-256 digest in hex;
\* different keys have different digests
HashApiKey(api_key) ==
    CASE api_key = "k0" -> "h0"
      [] api_key = "k1" -> "h1"
      [] api_key = "k2" -> "h2"
      [] OTHER -> "hx"

\* api_key_service.rs 38: Uuid::new_v4() of the record created with a key
RecordId(api_key) ==
    CASE api_key = "k0" -> "id0"
      [] api_key = "k1" -> "id1"
      [] api_key = "k2" -> "id2"
      [] OTHER -> "idx"

ApiKeyIds == { RecordId(k) : k \in ApiKeys }

\* api_key_service.rs 37-48: the ApiKeyRecord of create_api_key
ApiKeyRecord(id, deployment_id, key_hash, is_active, expires_at) ==
    [id |-> id, deployment_id |-> deployment_id, key_hash |-> key_hash,
     is_active |-> is_active, expires_at |-> expires_at]

\* the table holds the record of a key issued by an earlier run, to which an
\* expires_at was given
ApiWithExpiring ==
    [ApiEmpty EXCEPT !.keys = { ApiKeyRecord("id0", "d1", "h0", TRUE, 1) },
                     !.issued = {"k0"}]

\* api_key_service.rs 19-55 and database.rs 1155-1176: create_api_key with a
\* key generate_api_key never returned before; the INSERT succeeds (ok) or
\* fails
CreateApiKey(deployment_id, api_key, ok) ==
    /\ api_key \in NewKeys \ api.issued
    /\ api' = [api EXCEPT
           !.keys = IF ok
                    THEN @ \cup { ApiKeyRecord(RecordId(api_key), deployment_id,
                                               HashApiKey(api_key), TRUE, NoExpiry) }
                    ELSE @,
           !.issued = @ \cup {api_key},
           !.last = [op |-> "create", key |-> api_key, ok |-> ok,
                     result |-> deployment_id, at |-> 0,
                     validate |-> NoValidate]]
    /\ UNCHANGED << ingestVars, rpc, bus, db, call >>

\* database.rs 1181-1191: WHERE key_hash = ? AND is_active = 1
SelectByHash(keys, key_hash) ==
    { r \in keys : r.key_hash = key_hash /\ r.is_active }

\* api_key_service.rs 62-63: validate_api_key hashes the key and reads its
\* record
ValidateSelect(api_key) ==
    /\ api.pc = "idle"
    /\ api' = [api EXCEPT
           !.pc = "selected",
           !.validate = [key |-> api_key,
                         found |-> SelectByHash(api.keys, HashApiKey(api_key)),
                         table |-> { r \in api.keys : r.key_hash = HashApiKey(api_key) },
                         after_create |-> /\ api.last.op = "create" /\ api.last.ok
                                          /\ api.last.key = api_key,
                         after_dead |-> api_key \in api.dead]]
    /\ UNCHANGED << ingestVars, rpc, bus, db, call >>

\* api_key_service.rs 63-82: what validate_api_key returns for the record
\* read, at time now
Validated(found, now) ==
    IF found = {} THEN NoDeployment
    ELSE LET api_key_record == CHOOSE r \in found : TRUE
         IN  IF ~api_key_record.is_active THEN NoDeployment
             ELSE IF /\ api_key_record.expires_at # NoExpiry
                     /\ now > api_key_record.expires_at
                  THEN NoDeployment
                  ELSE api_key_record.deployment_id

\* api_key_service.rs 64-82: the checks and the return (the update of
\* last_used changes no column the service reads)
ValidateReturn ==
    /\ api.pc = "selected"
    /\ LET result == Validated(api.validate.found, api.now)
       IN  api' = [api EXCEPT
               !.pc = "idle",
               !.validate = NoValidate,
               !.last = [op |-> "validate", key |-> api.validate.key, ok |-> TRUE,
                         result |-> result, at |-> api.now,
                         validate |-> [api.validate EXCEPT !.found = {}]],
               !.validated = IF result # NoDeployment
                             THEN @ \cup {api.validate.key} ELSE @]
    /\ UNCHANGED << ingestVars, rpc, bus, db, call >>

\* the keys whose record has the id
KeysOfId(keys, api_key_id) ==
    { k \in ApiKeys : \E r \in keys : r.id = api_key_id /\ r.key_hash = HashApiKey(k) }

\* database.rs 1270-1283: UPDATE api_keys SET is_active = 0 WHERE id = ?
DeactivatedByHash(keys, api_key_id) ==
    { IF r.key_hash = api_key_id THEN [r EXCEPT !.is_active = FALSE] ELSE r : r \in keys }

Deactivated(keys, api_key_id) ==
    { IF r.id = api_key_id THEN [r EXCEPT !.is_active = FALSE] ELSE r : r \in keys }

\* api_key_service.rs 94-101
DeactivateApiKey(api_key_id) ==
    /\ api' = [api EXCEPT
           !.keys = Deactivated(@, api_key_id),
           !.dead = @ \cup KeysOfId(api.keys, api_key_id),
           !.last = [NoApiCall EXCEPT !.op = "deactivate"]]
    /\ UNCHANGED << ingestVars, rpc, bus, db, call >>

\* database.rs 1286-1298: DELETE FROM api_keys WHERE id = ?
Deleted(keys, api_key_id) == { r \in keys : r.id # api_key_id }

\* api_key_service.rs 104-111
DeleteApiKey(api_key_id) ==
    /\ api' = [api EXCEPT
           !.keys = Deleted(@, api_key_id),
           !.dead = @ \cup KeysOfId(api.keys, api_key_id),
           !.last = [NoApiCall EXCEPT !.op = "delete"]]
    /\ UNCHANGED << ingestVars, rpc, bus, db, call >>

\* Utc::now() advances
Tick ==
    /\ api.now < MaxNow
    /\ api' = [api EXCEPT !.now = @ + 1]
    /\ UNCHANGED << ingestVars, rpc, bus, db, call >>

KeyNext ==
    \/ \E deployment_id \in Deployments, api_key \in NewKeys, ok \in BOOLEAN :
           CreateApiKey(deployment_id, api_key, ok)
    \/ \E api_key \in ApiKeys : ValidateSelect(api_key)
    \/ ValidateReturn
    \/ \E api_key_id \in ApiKeyIds : DeactivateApiKey(api_key_id)
    \/ \E api_key_id \in ApiKeyIds : DeleteApiKey(api_key_id)
    \/ Tick

KeySpecInit ==
    /\ IngestAtRest /\ RpcInit /\ bus = BusEmpty /\ db = DbEmpty /\ call = NoCall
    /\ api \in {ApiEmpty, ApiWithExpiring}

KeySpec == KeySpecInit /\ [][KeyNext]_vars

\* ------------------------------------------------------------ C27
\* the deployment of the key's record in the table, if the record is there,
\* active and its expires_at is not before now
DeploymentOfValid(table, api_key, now) ==
    LET valid == { r \in table : /\ r.key_hash = HashApiKey(api_key)
                                  /\ r.is_active
                                  /\ (r.expires_at = NoExpiry \/ now <= r.expires_at) }
    IN  IF valid = {} THEN {NoDeployment} ELSE { r.deployment_id : r \in valid }

\* C27: a validate_api_key that has returned gave the deployment id of the
\* key's record if the record it read existed, was active and had not
\* expired, and None otherwise; it gave the deployment id when it began
\* right after the create_api_key that issued the key, and None when it
\* began after a deactivate_api_key or delete_api_key of the key's record.
KeyLifecycle ==
    api.last.op = "validate" =>
        /\ api.last.result \in
               DeploymentOfValid(api.last.validate.table, api.last.key, api.last.at)
        /\ api.last.validate.after_create =>
               \E r \in api.last.validate.table :
                   r.key_hash = HashApiKey(api.last.key) /\ api.last.result = r.deployment_id
        /\ api.last.validate.after_dead => api.last.result = NoDeployment

\* a key that validate_api_key had accepted was refused by a call that began
\* after its record was deactivated, the record being still in the table
RefusedAfterDeactivate ==
    /\ api.last.op = "validate"
    /\ api.last.key \in api.validated
    /\ api.last.validate.after_dead
    /\ api.last.result = NoDeployment
    /\ \E r \in api.keys : r.key_hash = HashApiKey(api.last.key) /\ ~r.is_active

\* ------------------------------------------------------------ C28
\* the blocks of the windows that ended with an error of sync_block_range
\* and that no window whose sync_block_range returned Ok holds
Uncommitted == lost \ covered

\* C28: the stored cursor covers no window whose events were not committed:
\* no block of a window of this run whose sync_block_range failed, and that
\* no window has committed since, is at or below the stored cursor.
CursorFollowsCommit ==
    (NormalCfg /\ cfg.start = NoStart /\ cursorRow # NoRow) =>
        \A b \in Uncommitted : b > atStart.row => b > cursorRow

\* ------------------------------------------------------------ C29
\* the step reports the window of catch-up (of tailing) as failed from the
\* retry loop of get_events
HFetchGivesUp == pcH = "h_fetch" /\ Len(hWins') = Len(hWins) + 1
TFetchGivesUp == pcT = "t_fetch" /\ pcT' = "t_read"

\* the get_events calls made for the window when the step is over: the
\* failed calls before the step and the call that fails in it, if one does
CallsWhenOver(attempts) == attempts + (IF faultsLeft' # faultsLeft THEN 1 ELSE 0)

\* C29: a window is reported as failed by the retry loop only when
\* max_retries + 1 get_events calls have been made for it and have failed.
AttemptsBeforeFailure ==
    [][/\ HFetchGivesUp => CallsWhenOver(hAttempts) = cfg.retries + 1
       /\ TFetchGivesUp => CallsWhenOver(tAttempts) = cfg.retries + 1]_vars

\* ------------------------------------------------------------ C30
\* the step ends a catch-up window with an error of its cursor write
HWriteErrStep ==
    /\ pcH = "h_write"
    /\ Len(hWins') = Len(hWins) + 1
    /\ faultsLeft' # faultsLeft

\* C30: when a catch-up window fails at its event fetch, its event insert or
\* its cursor write and blocks below current_block remain, catch-up goes on
\* to the window that follows.
CatchUpContinues ==
    [][(NormalCfg /\ (HWindowErrStep \/ HWriteErrStep) /\ NextFrom(HTo) < hCur)
            => (pcH' = "h_fetch" /\ hFrom' = NextFrom(HTo))]_vars

\* ------------------------------------------------------------ C31
\* start_syncing has returned from a failed first call (59-62, 85-88)
BootFailed == pcH = "aborted"

\* catch-up and tailing have been started for the contract
IngestionStarted == pcT # "t_idle" /\ pcH \notin {"boot_tip", "boot_state", "aborted"}

\* C31: when the first current_block_number call or the first cursor read
\* of start_syncing fails, catch-up and tailing are eventually started all the
\* same, in runs where only finitely many calls fail.
BootRecovers == BootFailed ~> IngestionStarted

\* ------------------------------------------------------------ C32
\* the step is the send of the event being broadcast to subscription id,
\* whose receiver is held and whose channel is full
SendToFull(id) ==
    /\ bus.pc = "sending" /\ id \in bus.pending /\ id \notin bus'.pending
    /\ bus.rx[id] = "open"
    /\ Len(bus.chan[id]) = SubChannelCap

\* C32: a send to a subscription whose channel holds its capacity of
\* unreceived events loses the event being sent: the events buffered before
\* the send are the events buffered after it, in the same order.
OverflowDropsNewest ==
    [][\A id \in SubIds : SendToFull(id) => bus'.chan[id] = bus.chan[id]]_vars

\* ------------------------------------------------------------ C33
\* subscription id is in the table (get_subscription_count counts it), its
\* receiver was dropped, and the broadcast under way is about to send to it
SendWillFail(id) ==
    /\ bus.subs[id] # NoSub /\ bus.rx[id] = "dropped"
    /\ bus.pc = "sending" /\ id \in bus.pending

\* C33: a subscription whose receiver was dropped and to which a broadcast
\* sends is eventually removed from the table.
ClosedEvicted == \A id \in SubIds : SendWillFail(id) ~> (bus.subs[id] = NoSub)

\* ------------------------------------------------------------ C34
\* the numbers of members of an event definition read from keys and from data
KeyMembers(event_def) ==
    Cardinality({ i \in 1..Len(event_def.members) : event_def.members[i].is_key })
DataMembers(event_def) == Len(event_def.members) - KeyMembers(event_def)

\* the key members fit in the keys left after the skipped prefix and the
\* other members fit in data
Compatible(event_def, log) ==
    /\ KeyMembers(event_def) <= Len(log.keys) - KeyIndexStart(event_def, log.keys)
    /\ DataMembers(event_def) <= Len(log.data)

\* C34: a log is decoded with an event definition only if the definition is
\* compatible with the numbers of keys and data values of the log, and when
\* no definition of the ABI is compatible the result is Unknown.
SelectionRespectsArity ==
    (call.f = "decode" /\ call.n >= 1) =>
        LET events == ParserEvents(call.abi)
        IN  /\ call.first.event_type \in DOMAIN events =>
                   Compatible(events[call.first.event_type], call.log)
            /\ (\A n \in DOMAIN events : ~Compatible(events[n], call.log)) =>
                   call.first.event_type = "Unknown"

\* ------------------------------------------------------------ C35
\* the first key slot read, as the specification has it: two slots are
\* skipped when the keys outnumber the key members by more than one
KeyIndexAsSpecified(event_def, keys) ==
    IF Len(keys) > KeyMembers(event_def) + 1 THEN 2 ELSE 1

\* C35: the object decoded with an event definition is the one obtained by
\* reading its key members from keys[2] on when len(keys) exceeds the number
\* of its key members plus one, and from keys[1] on otherwise.
KeyPrefixSkipped ==
    (call.f = "decode" /\ call.n >= 1) =>
        LET events == ParserEvents(call.abi)
            name == call.first.event_type
        IN  name \in DOMAIN events =>
                call.first.decoded =
                    Inserted(DecodeMembers(events[name].members, call.log.keys, call.log.data,
                                           KeyIndexAsSpecified(events[name], call.log.keys), 0)
                             \o RawArrays(call.log))

\* ------------------------------------------------------------ C36
\* the number of members up to the m-th that are read from the same array
\* as the m-th
RankOf(members, m) ==
    Cardinality({ i \in 1..m : members[i].is_key = members[m].is_key })

\* the value of the m-th member when each member takes the next slot of its
\* array: keys after the skipped prefix, data from its first value
SlotValue(event_def, log, m) ==
    LET member == event_def.members[m]
        rank == RankOf(event_def.members, m)
        at == IF member.is_key THEN KeyIndexStart(event_def, log.keys) + rank ELSE rank
        array == IF member.is_key THEN log.keys ELSE log.data
    IN  IF at <= Len(array) THEN DecodeValue(array[at], member.type_name) ELSE JNull

S5Log == [keys |-> << "0xsel", "0xAA", "0xBB" >>, data |-> << "0x64" >>]

\* C36: in the object decoded with an event definition the i-th key member
\* holds the value of the i-th key slot after the skipped prefix and the j-th
\* other member the value of data[j], null when that slot does not exist; the
\* log of scenario S5 decodes to Transfer with from = 0xAA, to = 0xBB and
\* value = 100.
MemberSlots ==
    (call.f = "decode" /\ call.n >= 1) =>
        LET events == ParserEvents(call.abi)
            name == call.first.event_type
        IN  /\ name \in DOMAIN events =>
                   \A m \in 1..Len(events[name].members) :
                       call.first.decoded[events[name].members[m].name] =
                           SlotValue(events[name], call.log, m)
            /\ (call.abi = << TransferS5 >> /\ call.log = S5Log) =>
                   /\ name = "Transfer"
                   /\ call.first.decoded["from"] = JString("0xAA")
                   /\ call.first.decoded["to"] = JString("0xBB")
                   /\ call.first.decoded["value"] = [json |-> "number", s |-> "100", a |-> << >>]

\* scenario S5 was decoded
S5Decoded ==
    /\ call.f = "decode" /\ call.n >= 1
    /\ call.abi = << TransferS5 >> /\ call.log = S5Log
    /\ call.first.event_type = "Transfer"

\* ================= EventQueryRoot::events, graphql/resolvers/events.rs 132-235
\* Option<i32>
NoneI32 == [some |-> FALSE, v |-> 0]
SomeI32(n) == [some |-> TRUE, v |-> n]

\* events.rs 149: first.unwrap_or(10).clamp(1, 100)
DefaultFirst == 10
FirstMax == 100
Limit(first) ==
    LET n == IF first.some THEN first.v ELSE DefaultFirst
    IN  IF n < 1 THEN 1 ELSE IF n > FirstMax THEN FirstMax ELSE n

\* a String is the sequence of its characters
DigitChars == << "0", "1", "2", "3", "4", "5", "6", "7", "8", "9" >>

\* events.rs 212: i32::to_string of a value that is not negative
RECURSIVE I32ToString(_)
I32ToString(n) ==
    IF n < 10 THEN << DigitChars[n + 1] >>
    ELSE Append(I32ToString(n \div 10), DigitChars[(n % 10) + 1])

\* str::parse::<i32> of a string without a sign: Ok(v) when it is not
\* empty, holds decimal digits only and v fits i32
RECURSIVE DecimalValue(_)
DecimalValue(chars) ==
    IF chars = << >> THEN 0
    ELSE 10 * DecimalValue(SubSeq(chars, 1, Len(chars) - 1))
         + (CHOOSE d \in 0..9 : DigitChars[d + 1] = chars[Len(chars)])
ParseI32(chars) ==
    IF /\ chars # << >>
       /\ \A i \in 1..Len(chars) : chars[i] \in Elems(DigitChars)
       /\ DecimalValue(chars) <= I32Max
    THEN SomeI32(DecimalValue(chars))
    ELSE NoneI32

\* events.rs 151-153: the offset the `after` argument stands for
Offset(after) ==
    IF after.some /\ ParseI32(after.v).some THEN ParseI32(after.v).v ELSE 0

\* events.rs 148-233 for a query that gives the contract address, first,
\* after and orderBy
Events(rows, first, after, order_by) ==
    LET limit == Limit(first)
        offset == Offset(after)
        db_events == GetEventsWithAdvancedFilters(rows,
                         Args(None, None, NoBound, NoBound, NoBound, NoBound, NoTx,
                              limit, offset, order_by))
        total_count == CountEvents(rows, "C", None)
        edges == [i \in 1..Len(db_events) |->
                     [node |-> db_events[i],
                      cursor |-> I32ToString(offset + (i - 1) + limit)]]
    IN  [edges |-> edges,
         has_next_page |-> (offset + limit) < total_count,
         has_previous_page |-> offset > 0,
         start_cursor |-> IF edges = << >> THEN None ELSE Some(edges[1].cursor),
         end_cursor |-> IF edges = << >> THEN None ELSE Some(edges[Len(edges)].cursor),
         total_count |-> total_count]

NoPage == Events({}, NoneI32, None, "None")

\* the tables queried: rows of QRows, no two under one id
PageTables == { t \in SUBSET QRows : \A a \in t, b \in t : a.id = b.id => a = b }
Firsts == {NoneI32} \cup { SomeI32(n) : n \in 0..MaxLimit }
Afters == {None, Some(<< "x" >>), Some(<< >>)} \cup { Some(I32ToString(n)) : n \in 0..MaxOffset }

\* the client is about to ask for a page
EventsStart(rows, first, after, order_by) ==
    call = [f |-> "events", rows |-> rows, first |-> first, after |-> after,
            order_by |-> order_by, n |-> 0, page |-> NoPage, edge |-> 0, next |-> NoPage]

\* the query with the client's arguments
EventsFirstPage ==
    /\ call.f = "events" /\ call.n = 0
    /\ call' = [call EXCEPT !.n = 1,
                            !.page = Events(call.rows, call.first, call.after, call.order_by)]
    /\ UNCHANGED << ingestVars, rpc, bus, db, api >>

\* the same query with `after` set to the cursor of the edge at index idx
\* of the page returned
EventsAfterEdge(idx) ==
    /\ call.f = "events" /\ call.n = 1
    /\ idx < Len(call.page.edges)
    /\ call' = [call EXCEPT !.n = 2, !.edge = idx,
                            !.next = Events(call.rows, call.first,
                                            Some(call.page.edges[idx + 1].cursor),
                                            call.order_by)]
    /\ UNCHANGED << ingestVars, rpc, bus, db, api >>

PageNext == EventsFirstPage \/ \E idx \in 0..(FirstMax - 1) : EventsAfterEdge(idx)

PageSpecInit ==
    /\ IngestAtRest /\ RpcInit /\ bus = BusEmpty /\ db = DbEmpty /\ api = ApiEmpty
    /\ \E rows \in PageTables, first \in Firsts, after \in Afters, order_by \in OrderBys :
           EventsStart(rows, first, after, order_by)

PageSpec == PageSpecInit /\ [][PageNext]_vars

\* ------------------------------------------------------------ C37
\* the events of a page
Nodes(page) == [i \in 1..Len(page.edges) |-> page.edges[i].node]

\* C37: the page requested with `after` set to the cursor of an edge is the
\* page that begins right after that edge: the page of the same query at the
\* offset of the edge plus one.
CursorResumes ==
    (call.f = "events" /\ call.n = 2) =>
        Nodes(call.next) =
            Nodes(Events(call.rows, call.first,
                         Some(I32ToString(Offset(call.after) + call.edge + 1)),
                         call.order_by))

\* ------------------------------------------------------------ C38
\* C38: the events table never holds two rows for one chain log, whatever
\* windows have fetched it.
OneRowPerLog ==
    (NormalCfg /\ NoFault) =>
        \A a \in store, b \in store : a.raw_data = b.raw_data => a = b

\* ------------------------------------------------------------ C39
\* unsubscribe(id) has returned: the id was drawn and is not in the table
Unsubscribed(id) == bus.rx[id] # "none" /\ bus.subs[id] = NoSub

\* the channel new holds what old held, less what was received or discarded
NothingAdded(old, new) ==
    new = old \/ new = << >> \/ (old # << >> /\ new = Tail(old))

\* the step is the unsubscribe of id
UnsubscribeStep(id) == bus.subs[id] # NoSub /\ bus'.subs[id] = NoSub

\* C39: once unsubscribe(id) has returned no event is added to the channel
\* of id, whatever broadcasts run; the unsubscribe changes nothing of any
\* other subscription, and every broadcast that begins is sent to each
\* recorded subscription whose filter matches.
UnsubscribeStopsDelivery ==
    [][\A id \in SubIds :
          /\ Unsubscribed(id) => NothingAdded(bus.chan[id], bus'.chan[id])
          /\ UnsubscribeStep(id) =>
                 \A other \in SubIds \ {id} :
                     /\ bus'.subs[other] = bus.subs[other]
                     /\ bus'.chan[other] = bus.chan[other]
                     /\ bus'.rx[other] = bus.rx[other]
          /\ (bus.pc = "idle" /\ bus'.pc = "sending") =>
                 (id \in bus'.pending <=>
                     (~Unsubscribed(id) /\ MatchesFilter(LastCall(bus'), bus.subs[id])))]_vars

\* s1, whose filter matches every event of C and whose channel was full, was
\* unsubscribed; an event of C was broadcast after that, s1 holds what it
\* held and s2 was sent the event
BroadcastAfterUnsubscribe ==
    /\ bus.pc = "idle"
    /\ Unsubscribed("s1") /\ bus.rx["s1"] = "open"
    /\ Len(bus.chan["s1"]) = SubChannelCap /\ bus.missed["s1"] = 0
    /\ bus.calls # << >> /\ LastCall(bus).contract_address = "C"
    /\ bus.subs["s2"] # NoSub /\ bus.rx["s2"] = "open"
    /\ bus.chan["s2"] # << >>
    /\ bus.chan["s2"][Len(bus.chan["s2"])] = LastCall(bus)

\* ============== the loop of sync_historical_data over the whole of u64,
\* indexer.rs 175-233
\* u64 addition: the sum does not fit when it passes the largest value; a
\* build with overflow checks panics there and one without wraps
Overflows(a, b) == a + b > MaxWord
WrappingAdd(a, b) == (a + b) % (MaxWord + 1)

\* sync_historical_data has read last_synced and current_block
CatchUpStart(last_synced, current_block, chunk_size) ==
    call = [f |-> "catch_up", from_block |-> last_synced, to_block |-> 0,
            current_block |-> current_block, chunk_size |-> chunk_size,
            pc |-> "h_tip"]

\* 178-194: the log line and the up-to-date test
CatchUpEnter ==
    /\ call.f = "catch_up" /\ call.pc = "h_tip"
    /\ \E pc \in AfterTip(call.from_block, call.current_block) :
           call' = [call EXCEPT !.pc = IF pc = "h_fetch" THEN "h_loop" ELSE pc]
    /\ UNCHANGED << ingestVars, rpc, bus, db, api >>

\* 196-197: the loop test, then to_block = min(from_block + chunk_size, current_block)
CatchUpWindow ==
    /\ call.f = "catch_up" /\ call.pc = "h_loop"
    /\ IF call.from_block < call.current_block
       THEN IF Overflows(call.from_block, call.chunk_size)
            THEN \/ call' = [call EXCEPT !.pc = "h_panic"]
                 \/ call' = [call EXCEPT
                        !.pc = "h_window",
                        !.to_block = Min(WrappingAdd(call.from_block, call.chunk_size),
                                         call.current_block)]
            ELSE call' = [call EXCEPT
                    !.pc = "h_window",
                    !.to_block = ToBlock(call.from_block, call.chunk_size, call.current_block)]
       ELSE call' = [call EXCEPT !.pc = "h_done"]
    /\ UNCHANGED << ingestVars, rpc, bus, db, api >>

\* 203-221: the window is processed: sync_block_range and the cursor write
\* return Ok, or sync_block_range returns Err (continue), then
\* from_block = to_block + 1; or the cursor write returns Err (abort)
CatchUpAdvance(outcome) ==
    /\ call.f = "catch_up" /\ call.pc = "h_window"
    /\ IF outcome = "abort"
       THEN call' = [call EXCEPT !.pc = "h_err"]
       ELSE IF Overflows(call.to_block, 1)
            THEN \/ call' = [call EXCEPT !.pc = "h_panic"]
                 \/ call' = [call EXCEPT !.pc = "h_loop",
                                         !.from_block = WrappingAdd(call.to_block, 1)]
            ELSE call' = [call EXCEPT !.pc = "h_loop",
                                     !.from_block = NextFrom(call.to_block)]
    /\ UNCHANGED << ingestVars, rpc, bus, db, api >>

LoopNext ==
    \/ CatchUpEnter
    \/ CatchUpWindow
    \/ \E outcome \in {"ok", "continue", "abort"} : CatchUpAdvance(outcome)

LoopSpecInit ==
    /\ IngestAtRest /\ RpcInit /\ bus = BusEmpty /\ db = DbEmpty /\ api = ApiEmpty
    /\ \E last_synced \in 0..MaxWord, current_block \in 0..MaxWord, chunk_size \in 0..MaxWord :
           CatchUpStart(last_synced, current_block, chunk_size)

\* the runtime keeps polling the task while it can take a step
LoopSpec == LoopSpecInit /\ [][LoopNext]_vars /\ WF_vars(LoopNext)

\* ------------------------------------------------------------ C40
\* sync_historical_data has returned, or its task has panicked
CatchUpOver == call.pc \in {"h_done", "h_err", "h_panic"}

\* C40: sync_historical_data is over after finitely many windows, for every
\* starting block, every chunk_size and every current_block (stated for the
\* chains whose block number is below the largest u64).
CatchUpTerminates ==
    (call.f = "catch_up" /\ call.current_block < MaxWord) ~> CatchUpOver
====
